---------------------------- MODULE Spec2Model ----------------------------
(***************************************************************************)
(* A model of the request-interception pipeline of the edge proxy          *)
(* (pkg/yurthub/proxy/util/util.go): the admission gate                    *)
(* WithMaxInFlightLimit, the timeout adjuster WithRequestTimeout, the      *)
(* credential rewriter WithSaTokenSubstitute and the selector extractor    *)
(* WithListRequestSelector.                                                *)
(*                                                                         *)
(* The admission gate is shared by concurrently running requests and is    *)
(* modelled as interleaved steps of request goroutines (Spec).  The other  *)
(* stages touch only their own request; each is a specification of its own *)
(* (SpecTimeout, SpecToken, SpecSelector) that draws one request from      *)
(* bounded input sets and applies the stage to it.                         *)
(***************************************************************************)
EXTENDS Integers, Sequences, FiniteSets, TLC

(***************************************************************************)
(* Bounds of the model.                                                    *)
(***************************************************************************)
\* number of request goroutines followed step by step
MaxReq == 3
\* largest configured ordinary limit
MaxLimit == 2
\* characters in the values of the timeoutSeconds and timeout parameters together
MaxQueryLen == 3
\* colon-separated parts of a token's subject
MaxSubjectLen == 4
\* requirements in the label and field selectors of a request together
MaxSelectorLen == 3
\* characters of a User-Agent header
MaxAgentLen == 4
\* pieces (v1, beta1, x) a declared version is made of
MaxVersionLen == 2
\* clauses of an Accept header
MaxAcceptLen == 2
\* environment variables of an object, and its containers
MaxEnvVars == 2
\* calls of Filter on one object
MaxApply == 2
\* concurrent calls of ReListWatchReq
MaxReList == 2
\* concurrent requests in WithRequestTrace
MaxTrace == 2
\* longest value of the Edge-Cache header
MaxCacheHeaderLen == 4
\* longest Accept header read as text
MaxContentLen == 5
\* largest count given to SlowStartBatch
MaxCount == 4
\* largest initialBatchSize given to SlowStartBatch
MaxInitialBatchSize == 2

(***************************************************************************)
(* Program constants.                                                      *)
(***************************************************************************)
\* make(chan bool, 4096)
MultiplexerCap == 4096
\* errors.NewTooManyRequestsError
StatusTooManyRequests == 429
\* w.Header().Set("Retry-After", "1")
RetryAfter == 1
\* errors.NewBadRequest
StatusBadRequest == 400
\* watchTimeoutMargin int64 = 15
watchTimeoutMargin == 15
\* getAndListTimeoutReduce int64 = 2
getAndListTimeoutReduce == 2
\* time.Second, durations being counted in milliseconds
Second == 1000
\* time.Minute in milliseconds
Minute == 60000

VARIABLES
    limit,                \* the limit argument of WithMaxInFlightLimit
    reqChan,              \* chan bool of the ordinary pool
    multiplexerReqChan,   \* chan bool of the pool-scope pool
    background,           \* pool-scope requests already in flight at the start, never completing
    pc,                   \* per request: "new", "serving", "deferred", "done", "rejected"
    pool,                 \* per request: TRUE iff it took the pool-scope branch
    flag,                 \* the pool-scope flag in the context of the request that arrived last
    outcome,              \* per request: how the downstream handler ended
    status,               \* per request: status code written by the admission stage (0: none)
    retryAfter,           \* per request: Retry-After header set by the admission stage (0: unset)
    served,               \* per request: number of times the downstream handler was invoked
    metrics,              \* the two rejected-request counters
    req,                  \* the request a single stage receives: info, query, headers
    env,                  \* what the tenant manager answers: namespace, token, cache synced
    down,                 \* what the stage hands to the downstream handler
    resp,                 \* what the stage itself writes to the response
    selOut,               \* the last direct application of selectorString
    step,                 \* "idle", "ready" (request received), "done" (stage returned)
    creq,                 \* the request a context stage receives: info, headers, context
    conf,                 \* the arguments a context stage was built with
    cdown,                \* the context a context stage hands downstream
    pef,                  \* the podEnvFilter: its host field
    obj,                  \* the object handed to Filter, which mutates it in place
    applied,              \* the calls of Filter so far: host, object before, object after
    portCalled,           \* whether SetMasterServicePort was called
    stream,               \* the response writer ReListWatchReq writes to
    batch,                \* the run of SlowStartBatch
    trace                 \* the requests in WithRequestTrace and the in-flight gauges

admissionVars == <<limit, reqChan, multiplexerReqChan, background, pc, pool, flag,
                   outcome, status, retryAfter, served, metrics>>

stageVars == <<req, env, down, resp, selOut, step>>

contextVars == <<creq, conf, cdown>>

filterVars == <<pef, obj, applied, portCalled>>

streamVars == <<stream>>

batchVars == <<batch>>

traceVars == <<trace>>

\* the variables that neither the gate nor the stages of the first group touch
sideVars == <<contextVars, filterVars, streamVars, batchVars, traceVars>>

\* the variables of the gate and of the first group of stages, except step
pipelineVars == <<admissionVars, req, env, down, resp, selOut>>

vars == <<admissionVars, stageVars, sideVars>>

Requests == 1..MaxReq

\* the configured limits tried: the non-positive ones leave reqChan nil
Limits == (-1)..MaxLimit

\* the value of the pool-scope key in the request context
PoolScopeFlags == {"absent", "false", "true"}

\* how the downstream handler may end: normal return, an error response
\* (such as the 400 of the timeout stage), or a panic unwinding the stack
Outcomes == {"ok", "error", "panic"}

(***************************************************************************)
(* Go channels of bool.  Every element is true, so a channel is its        *)
(* capacity and its length; the zero value of a channel variable is nil.   *)
(***************************************************************************)
NilChan == [nil |-> TRUE, cap |-> 0, len |-> 0]

MakeChan(n) == [nil |-> FALSE, cap |-> n, len |-> 0]

\* faulty variant: admits one request more than the capacity
TrySendOffByOne(ch) == ~ch.nil /\ ch.len <= ch.cap

\* a send in a select with a default case is taken iff it is ready:
\* never on a nil channel, otherwise iff the buffer has room
TrySend(ch) == ~ch.nil /\ ch.len < ch.cap

Send(ch) == [ch EXCEPT !.len = @ + 1]

\* a receive blocks on a nil or empty channel
CanRecv(ch) == ~ch.nil /\ ch.len > 0

Recv(ch) == [ch EXCEPT !.len = @ - 1]

\* var reqChan chan bool; if limit > 0 { reqChan = make(chan bool, limit) }
NewReqChan(n) == IF n > 0 THEN MakeChan(n) ELSE NilChan

\* isRequestForPoolScopeMetadata, _ := util.IsRequestForPoolScopeMetadataFrom(ctx)
IsRequestForPoolScopeMetadataFrom(f) == f = "true"

\* faulty variant: one pool decides for both kinds of request
ChanOfOrdinaryOnly(isPool) == reqChan

\* if isRequestForPoolScopeMetadata { select { case multiplexerReqChan <- true: ...
\* } else { select { case reqChan <- true: ...
ChanOf(isPool) == IF isPool THEN multiplexerReqChan ELSE reqChan

\* faulty variant: a rejection counted for both pools
IncRejectedBoth(m, isPool) ==
    [rejected |-> m.rejected + 1, rejectedMultiplexer |-> m.rejectedMultiplexer + 1]

\* metrics.Metrics.IncRejectedMultiplexerRequestCounter() / IncRejectedRequestCounter()
IncRejected(m, isPool) ==
    IF isPool THEN [m EXCEPT !.rejectedMultiplexer = @ + 1]
              ELSE [m EXCEPT !.rejected = @ + 1]

\* faulty variant: the receive placed after the call instead of deferred
ReleasesOnNormalReturnOnly(o) == o # "panic"

\* the deferred receive runs on every way out of handler.ServeHTTP
Releases(o) == TRUE

(***************************************************************************)
(* The state after WithMaxInFlightLimit(handler, limit, nodeName), with    *)
(* `background` pool-scope requests (long-running watches) in flight.      *)
(***************************************************************************)
Backgrounds == {0} \cup ((MultiplexerCap - MaxReq)..MultiplexerCap)

InitAdmission ==
    /\ limit \in Limits
    /\ reqChan = NewReqChan(limit)
    /\ background \in Backgrounds
    /\ multiplexerReqChan = [MakeChan(MultiplexerCap) EXCEPT !.len = background]
    /\ pc = [r \in Requests |-> "new"]
    /\ pool = [r \in Requests |-> FALSE]
    /\ flag = "absent"
    /\ outcome = [r \in Requests |-> "none"]
    /\ status = [r \in Requests |-> 0]
    /\ retryAfter = [r \in Requests |-> 0]
    /\ served = [r \in Requests |-> 0]
    /\ metrics = [rejected |-> 0, rejectedMultiplexer |-> 0]

\* requests are numbered in their order of arrival at the gate
Arrives(r) == pc[r] = "new" /\ (IF r = 1 THEN TRUE ELSE pc[r - 1] # "new")

\* select { case ch <- true: ...; defer ...; handler.ServeHTTP(w, req)
Admit(r) ==
    /\ Arrives(r)
    /\ \E f \in PoolScopeFlags :
         LET isPool == IsRequestForPoolScopeMetadataFrom(f) IN
           /\ flag' = f
           /\ TrySend(ChanOf(isPool))
           /\ IF isPool
                THEN /\ multiplexerReqChan' = Send(multiplexerReqChan)
                     /\ UNCHANGED reqChan
                ELSE /\ reqChan' = Send(reqChan)
                     /\ UNCHANGED multiplexerReqChan
           /\ pool' = [pool EXCEPT ![r] = isPool]
    /\ pc' = [pc EXCEPT ![r] = "serving"]
    /\ served' = [served EXCEPT ![r] = @ + 1]
    /\ UNCHANGED <<limit, background, outcome, status, retryAfter, metrics>>
    /\ UNCHANGED <<stageVars, sideVars>>

\* select { ... default: counter, Retry-After, util.Err(429) }
Reject(r) ==
    /\ Arrives(r)
    /\ \E f \in PoolScopeFlags :
         LET isPool == IsRequestForPoolScopeMetadataFrom(f) IN
           /\ flag' = f
           /\ ~TrySend(ChanOf(isPool))
           /\ metrics' = IncRejected(metrics, isPool)
           /\ pool' = [pool EXCEPT ![r] = isPool]
    /\ retryAfter' = [retryAfter EXCEPT ![r] = RetryAfter]
    /\ status' = [status EXCEPT ![r] = StatusTooManyRequests]
    /\ pc' = [pc EXCEPT ![r] = "rejected"]
    /\ UNCHANGED <<limit, reqChan, multiplexerReqChan, background, outcome, served>>
    /\ UNCHANGED <<stageVars, sideVars>>

\* handler.ServeHTTP(w, req) ends: by returning or by panicking
HandlerReturn(r) ==
    /\ pc[r] = "serving"
    /\ \E o \in Outcomes : outcome' = [outcome EXCEPT ![r] = o]
    /\ pc' = [pc EXCEPT ![r] = "deferred"]
    /\ UNCHANGED <<limit, reqChan, multiplexerReqChan, background, pool, flag, status,
                   retryAfter, served, metrics>>
    /\ UNCHANGED <<stageVars, sideVars>>

\* defer func() { <-ch }()
Release(r) ==
    /\ pc[r] = "deferred"
    /\ IF Releases(outcome[r])
         THEN /\ CanRecv(ChanOf(pool[r]))
              /\ IF pool[r]
                   THEN /\ multiplexerReqChan' = Recv(multiplexerReqChan)
                        /\ UNCHANGED reqChan
                   ELSE /\ reqChan' = Recv(reqChan)
                        /\ UNCHANGED multiplexerReqChan
         ELSE UNCHANGED <<reqChan, multiplexerReqChan>>
    /\ pc' = [pc EXCEPT ![r] = "done"]
    /\ UNCHANGED <<limit, background, pool, flag, outcome, status, retryAfter, served, metrics>>
    /\ UNCHANGED <<stageVars, sideVars>>

(***************************************************************************)
(* Strings.  A value that the code parses is a sequence of one-character   *)
(* strings; a value that the code renders is a string built with \o.       *)
(***************************************************************************)
RECURSIVE StringsOver(_, _)
\* the strings of exactly n characters of an alphabet
StringsOver(alphabet, n) ==
    IF n = 0 THEN {<<>>}
    ELSE {<<c>> \o t : c \in alphabet, t \in StringsOver(alphabet, n - 1)}

StringsUpTo(alphabet, n) == UNION {StringsOver(alphabet, k) : k \in 0..n}

Drop(str, n) == SubSeq(str, n + 1, Len(str))

DigitChars == <<"0", "1", "2", "3", "4", "5", "6", "7", "8", "9">>

IsDigit(c) == \E i \in 1..Len(DigitChars) : DigitChars[i] = c

DigitValue(c) == (CHOOSE i \in 1..Len(DigitChars) : DigitChars[i] = c) - 1

RECURSIVE LeadingDigits(_)
LeadingDigits(str) ==
    IF str = <<>> THEN <<>>
    ELSE IF IsDigit(Head(str)) THEN <<Head(str)>> \o LeadingDigits(Tail(str))
    ELSE <<>>

RECURSIVE DecimalValue(_, _)
DecimalValue(digits, acc) ==
    IF digits = <<>> THEN acc
    ELSE DecimalValue(Tail(digits), acc * 10 + DigitValue(Head(digits)))

\* strconv.ParseInt(str, 10, 64): an optional sign and at least one digit,
\* nothing else (values stay far below the 64-bit range here)
ParseInt(str) ==
    LET signed == IF str = <<>> THEN FALSE ELSE Head(str) \in {"-", "+"}
        body   == IF signed THEN Tail(str) ELSE str
        digits == LeadingDigits(body)
    IN  IF body = <<>> \/ digits # body
          THEN [ok |-> FALSE, val |-> 0]
          ELSE [ok |-> TRUE,
                val |-> IF Head(str) = "-" THEN 0 - DecimalValue(digits, 0)
                                           ELSE DecimalValue(digits, 0)]

RECURSIVE LeadingUnit(_)
\* the unit of a duration term: everything up to the next digit or '.'
LeadingUnit(str) ==
    IF str = <<>> THEN <<>>
    ELSE IF IsDigit(Head(str)) \/ Head(str) = "." THEN <<>>
    ELSE <<Head(str)>> \o LeadingUnit(Tail(str))

\* the units of time.ParseDuration that are whole milliseconds
UnitNames == {<<"m", "s">>, <<"s">>, <<"m">>}

UnitValue(unit) ==
    CASE unit = <<"m", "s">> -> 1
      [] unit = <<"s">> -> Second
      [] unit = <<"m">> -> Minute

RECURSIVE ParseTerms(_, _)
\* the loop of time.ParseDuration over <digits><unit> terms (no fractions)
ParseTerms(str, acc) ==
    IF str = <<>> THEN [ok |-> TRUE, d |-> acc]
    ELSE LET digits == LeadingDigits(str)
             rest   == Drop(str, Len(digits))
             unit   == LeadingUnit(rest)
         IN  IF digits = <<>> \/ unit \notin UnitNames
               THEN [ok |-> FALSE, d |-> 0]
               ELSE ParseTerms(Drop(rest, Len(unit)),
                               acc + DecimalValue(digits, 0) * UnitValue(unit))

\* time.ParseDuration(str), in milliseconds
ParseDuration(str) ==
    LET signed == IF str = <<>> THEN FALSE ELSE Head(str) \in {"-", "+"}
        body   == IF signed THEN Tail(str) ELSE str
        terms  == ParseTerms(body, 0)
    IN  IF body = <<"0">> THEN [ok |-> TRUE, d |-> 0]
        ELSE IF body = <<>> \/ ~terms.ok THEN [ok |-> FALSE, d |-> 0]
        ELSE [ok |-> TRUE, d |-> IF Head(str) = "-" THEN 0 - terms.d ELSE terms.d]

(***************************************************************************)
(* Selectors.  The text of a selector is a comma-separated sequence of     *)
(* requirements key op value; parsing checks every requirement and sorts   *)
(* them, String() renders them back, writing == as =.                      *)
(***************************************************************************)
Requirement(k, o, v) == [key |-> k, op |-> o, val |-> v]

SelectorOps == {"=", "==", "!="}

\* the requirements of label selectors tried; the last one has no key
LabelRequirements ==
    {Requirement("a", "=", "1"), Requirement("b", "==", "2"), Requirement("", "=", "x")}

\* the requirements of field selectors tried; the last one has no operator
FieldRequirements ==
    {Requirement("f", "==", "1"), Requirement("g", "!=", "2"), Requirement("h", "", "")}

ValidLabelRequirement(r) == r.key # "" /\ r.op \in SelectorOps

ValidFieldRequirement(r) == r.op \in SelectorOps

KeyOrder == <<"", "a", "b", "f", "g", "h">>

KeyRank(k) == CHOOSE i \in 1..Len(KeyOrder) : KeyOrder[i] = k

RECURSIVE InsertByKey(_, _)
InsertByKey(sorted, r) ==
    IF sorted = <<>> THEN <<r>>
    ELSE IF KeyRank(r.key) < KeyRank(Head(sorted).key) THEN <<r>> \o sorted
    ELSE <<Head(sorted)>> \o InsertByKey(Tail(sorted), r)

RECURSIVE SortByKey(_)
SortByKey(reqs) ==
    IF reqs = <<>> THEN <<>>
    ELSE InsertByKey(SortByKey(SubSeq(reqs, 1, Len(reqs) - 1)), reqs[Len(reqs)])

\* a selector value: nil, or its sorted requirements
NilSelector == [nil |-> TRUE, reqs |-> <<>>]

\* labels.Parse(text)
ParseLabelSelector(text) ==
    IF \A i \in 1..Len(text) : ValidLabelRequirement(text[i])
      THEN [ok |-> TRUE, sel |-> [nil |-> FALSE, reqs |-> SortByKey(text)]]
      ELSE [ok |-> FALSE, sel |-> NilSelector]

\* fields.ParseSelector(text)
ParseFieldSelector(text) ==
    IF \A i \in 1..Len(text) : ValidFieldRequirement(text[i])
      THEN [ok |-> TRUE, sel |-> [nil |-> FALSE, reqs |-> SortByKey(text)]]
      ELSE [ok |-> FALSE, sel |-> NilSelector]

RenderRequirement(r) == r.key \o (IF r.op = "==" THEN "=" ELSE r.op) \o r.val

RECURSIVE JoinRequirements(_)
JoinRequirements(reqs) ==
    IF reqs = <<>> THEN ""
    ELSE IF Len(reqs) = 1 THEN RenderRequirement(reqs[1])
    ELSE RenderRequirement(reqs[1]) \o "," \o JoinRequirements(Tail(reqs))

\* lSelector.String(), fSelector.String()
SelectorToString(sel) == JoinRequirements(sel.reqs)

(***************************************************************************)
(* Requests.  A query parameter is <<>> when absent and <<value>> when     *)
(* present.                                                                *)
(***************************************************************************)
Param(values) == {<<>>} \cup {<<v>> : v \in values}

ParamLen(param) == IF param = <<>> THEN 0 ELSE Len(param[1])

ParamValue(param) == IF param = <<>> THEN <<>> ELSE param[1]

\* apirequest.RequestInfoFrom(ctx): absent, or a RequestInfo
NoInfo == [ok |-> FALSE, IsResourceRequest |-> FALSE, Verb |-> "", Name |-> ""]

Infos(verbs, names) ==
    {NoInfo} \cup
    {[ok |-> TRUE, IsResourceRequest |-> res, Verb |-> v, Name |-> n] :
        res \in BOOLEAN, v \in verbs, n \in names}

\* metainternalversionscheme.ParameterCodec.DecodeParameters(req.URL.Query(), ..., &opts):
\* fails when any of the parameters of ListOptions cannot be converted
DecodeParameters(query) ==
    LET ts == ParseInt(ParamValue(query.timeoutSeconds))
        ls == ParseLabelSelector(ParamValue(query.labelSelector))
        fs == ParseFieldSelector(ParamValue(query.fieldSelector))
        tsOk == query.timeoutSeconds = <<>> \/ ts.ok
    IN  [err  |-> ~(tsOk /\ ls.ok /\ fs.ok),
         opts |-> [TimeoutSeconds |-> IF query.timeoutSeconds # <<>> /\ ts.ok
                                        THEN <<ts.val>> ELSE <<>>,
                   LabelSelector  |-> ls.sel,
                   FieldSelector  |-> fs.sel]]

NoQuery == [labelSelector |-> <<>>, fieldSelector |-> <<>>,
            timeoutSeconds |-> <<>>, timeout |-> <<>>]

\* a bearer token: the empty string, text that is no JWS, or a JWS whose
\* payload may hold claims with a subject of colon-separated parts
EmptyToken == [form |-> "empty", claimsOk |-> FALSE, sub |-> <<>>]

\* an Authorization header: a scheme and a token; no header is the empty scheme
NoAuthorization == [scheme |-> "", token |-> EmptyToken]

Bearer(token) == [scheme |-> "Bearer", token |-> token]

NoRequest == [info |-> NoInfo, query |-> NoQuery, authorization |-> NoAuthorization]

NoEnv == [tenantNs |-> "", synced |-> FALSE, tenantToken |-> EmptyToken]

\* nothing handed downstream yet
NoDown == [calls |-> 0, authorization |-> NoAuthorization, headerSet |-> FALSE,
           hasDeadline |-> FALSE, deadline |-> 0, cancelled |-> FALSE,
           hasSelector |-> FALSE, selector |-> ""]

NoResp == [status |-> 0]

NoSelOut == [called |-> FALSE, l |-> NilSelector, f |-> NilSelector, out |-> ""]

\* the gate is not part of the single-stage specifications
IdleAdmission ==
    /\ limit = 0
    /\ reqChan = NewReqChan(0)
    /\ background = 0
    /\ multiplexerReqChan = MakeChan(MultiplexerCap)
    /\ pc = [r \in Requests |-> "new"]
    /\ pool = [r \in Requests |-> FALSE]
    /\ flag = "absent"
    /\ outcome = [r \in Requests |-> "none"]
    /\ status = [r \in Requests |-> 0]
    /\ retryAfter = [r \in Requests |-> 0]
    /\ served = [r \in Requests |-> 0]
    /\ metrics = [rejected |-> 0, rejectedMultiplexer |-> 0]

IdleStage ==
    /\ req = NoRequest
    /\ env = NoEnv
    /\ down = NoDown
    /\ resp = NoResp
    /\ selOut = NoSelOut
    /\ step = "idle"

(***************************************************************************)
(* The context stages: each receives a request with its headers and the    *)
(* context the stages before it filled, and hands the context downstream.  *)
(***************************************************************************)
\* apirequest.RequestInfoFrom(ctx), with the fields the context stages read
NoCInfo == [ok |-> FALSE, IsResourceRequest |-> FALSE, Verb |-> "",
            APIGroup |-> "", APIVersion |-> "", Resource |-> ""]

CInfos(verbs, groups, versions, resources) ==
    {NoCInfo} \cup
    {[ok |-> TRUE, IsResourceRequest |-> res, Verb |-> v,
      APIGroup |-> g, APIVersion |-> ver, Resource |-> r] :
        res \in BOOLEAN, v \in verbs, g \in groups, ver \in versions, r \in resources}

\* util.ConvertGVKFrom(ctx): no value, a nil pointer, or a GroupVersionKind
NoGVK == [ok |-> FALSE, nil |-> TRUE, Group |-> "", Version |-> "", Kind |-> ""]

NilGVK == [ok |-> TRUE, nil |-> TRUE, Group |-> "", Version |-> "", Kind |-> ""]

GVK(g, v, k) == [ok |-> TRUE, nil |-> FALSE, Group |-> g, Version |-> v, Kind |-> k]

NoCReq == [info |-> NoCInfo, userAgent |-> <<>>, accept |-> <<>>, edgeCache |-> <<>>,
           convertGVK |-> NoGVK]

NoConf == [mode |-> "", multiplexerUserAgent |-> <<>>, poolScopeMetadata |-> {}]

\* nothing handed downstream yet
NoCDown == [calls |-> 0, clientComponent |-> <<>>, convertGVK |-> NoGVK,
            poolScopeSet |-> FALSE, poolScope |-> FALSE,
            canCache |-> FALSE, edgeCache |-> <<>>, contentType |-> <<>>]

IdleContext ==
    /\ creq = NoCReq
    /\ conf = NoConf
    /\ cdown = NoCDown

\* &podEnvFilter{}: the host is the empty string
NewPodEnvFilter == [host |-> ""]

NoObject == [kind |-> "", containers |-> <<>>]

IdleFilter ==
    /\ pef = NewPodEnvFilter
    /\ obj = NoObject
    /\ applied = <<>>
    /\ portCalled = FALSE

\* no call of ReListWatchReq
NoStream == <<>>

IdleStream == stream = NoStream

\* no call of SlowStartBatch
NoBatch == [pc |-> "idle"]

IdleBatch == batch = NoBatch

\* no request in WithRequestTrace
NoTrace == [pc |-> <<>>]

IdleTrace == trace = NoTrace

IdleSide == IdleContext /\ IdleFilter /\ IdleStream /\ IdleBatch /\ IdleTrace

(***************************************************************************)
(* WithRequestTimeout.                                                     *)
(***************************************************************************)
needModifyTimeoutVerb == {"get", "list", "watch"}

\* faulty variant: the margin forgotten
WatchTimeoutNoMargin(t) == t * Second

\* timeout = time.Duration(*opts.TimeoutSeconds+watchTimeoutMargin) * time.Second
WatchTimeout(t) == (t + watchTimeoutMargin) * Second

\* faulty variant: the reduction forgotten
ListTimeoutNoReduce(t) == IF t > getAndListTimeoutReduce THEN t * Second ELSE 0

\* else if *opts.TimeoutSeconds > getAndListTimeoutReduce { timeout = ... }
ListTimeout(t) ==
    IF t > getAndListTimeoutReduce THEN (t - getAndListTimeoutReduce) * Second ELSE 0

\* the get branch: query["timeout"], time.ParseDuration, the same reduction
GetTimeout(query) ==
    IF query.timeout = <<>> THEN 0
    ELSE LET t == ParseDuration(query.timeout[1])
         IN  IF t.ok /\ t.d > getAndListTimeoutReduce * Second
               THEN t.d - getAndListTimeoutReduce * Second
               ELSE 0

\* faulty variant: watch requests not decoded
IsListOnly(verb) == verb = "list"

\* if info.Verb == "list" || info.Verb == "watch"
IsListOrWatch(verb) == verb = "list" \/ verb = "watch"

\* what the stage decides: a terminal response, or the timeout to install (0: none)
RequestTimeout(r) ==
    IF r.info.ok /\ r.info.IsResourceRequest /\ r.info.Verb \in needModifyTimeoutVerb
      THEN IF IsListOrWatch(r.info.Verb)
             THEN LET d == DecodeParameters(r.query)
                  IN  IF d.err
                        THEN [terminal |-> TRUE, status |-> StatusBadRequest, timeout |-> 0]
                        ELSE [terminal |-> FALSE, status |-> 0,
                              timeout |->
                                 IF d.opts.TimeoutSeconds = <<>> THEN 0
                                 ELSE IF r.info.Verb = "watch"
                                        THEN WatchTimeout(d.opts.TimeoutSeconds[1])
                                        ELSE ListTimeout(d.opts.TimeoutSeconds[1])]
             ELSE [terminal |-> FALSE, status |-> 0,
                   timeout |-> IF r.info.Verb = "get" THEN GetTimeout(r.query) ELSE 0]
      ELSE [terminal |-> FALSE, status |-> 0, timeout |-> 0]

\* faulty variant: a timeout of zero installed as well
InstallsDeadlineFromZero(timeout) == timeout >= 0

\* if timeout > 0 { ctx, cancel := context.WithTimeout(req.Context(), timeout);
\* defer cancel(); req = req.WithContext(ctx) }
InstallsDeadline(timeout) == timeout > 0

\* the handler WithRequestTimeout returns, applied to the request received
WithRequestTimeout ==
    /\ step = "ready"
    /\ LET t == RequestTimeout(req)
       IN  /\ resp' = [status |-> t.status]
           /\ down' = IF t.terminal
                        THEN down
                        ELSE [down EXCEPT !.calls = @ + 1,
                                          !.authorization = req.authorization,
                                          !.hasDeadline = InstallsDeadline(t.timeout),
                                          !.deadline = IF InstallsDeadline(t.timeout)
                                                         THEN t.timeout ELSE 0,
                                          !.cancelled = InstallsDeadline(t.timeout)]
    /\ step' = "done"
    /\ UNCHANGED <<req, env, selOut>>
    /\ UNCHANGED <<admissionVars, sideVars>>

\* the characters of the timeoutSeconds values tried
IntChars == {"-", "1", "2", "3", "5", "x"}

\* the characters of the timeout values tried
DurationChars == {"-", "2", "3", "s", "m"}

TimeoutVerbs == {"get", "list", "watch", "create"}

\* label selectors of the timeout requests: absent, valid, invalid
TimeoutLabelSelectors ==
    {<<>>, <<<<Requirement("a", "=", "1")>>>>, <<<<Requirement("", "=", "x")>>>>}

TimeoutQueries ==
    {q \in [labelSelector : TimeoutLabelSelectors,
            fieldSelector : {<<>>},
            timeoutSeconds : Param(StringsUpTo(IntChars, MaxQueryLen)),
            timeout : Param(StringsUpTo(DurationChars, MaxQueryLen))] :
        ParamLen(q.timeoutSeconds) + ParamLen(q.timeout) <= MaxQueryLen}

InitTimeout ==
    /\ IdleAdmission
    /\ IdleSide
    /\ req \in [info : Infos(TimeoutVerbs, {""}), query : TimeoutQueries,
                authorization : {NoAuthorization}]
    /\ env = NoEnv
    /\ down = NoDown
    /\ resp = NoResp
    /\ selOut = NoSelOut
    /\ step = "ready"

NextTimeout == WithRequestTimeout

SpecTimeout == InitTimeout /\ [][NextTimeout]_vars

(***************************************************************************)
(* WithSaTokenSubstitute.                                                  *)
(***************************************************************************)
\* util.ParseBearerToken(req.Header.Get("Authorization")): the token of a
\* well-formed bearer header, the empty string otherwise
ParseBearerToken(auth) ==
    IF auth.scheme = "Bearer" THEN auth.token ELSE EmptyToken

\* jwt.ParseSigned(oldToken) succeeds on a JWS
ParseSigned(token) == token.form = "jws"

\* jsonWebToken.UnsafeClaimsWithoutVerification(&oldClaim)
UnsafeClaimsWithoutVerification(token) == [ok |-> token.claimsOk, Subject |-> token.sub]

\* names that pass ValidateNamespaceName / ValidateServiceAccountName
ValidName(part) == part \notin {"", "Bad_Name"}

\* faulty variant: any subject with the prefix and a namespace accepted
SplitUsernameLenient(sub) ==
    IF Len(sub) >= 3 /\ SubSeq(sub, 1, 2) = <<"system", "serviceaccount">>
      THEN [ok |-> TRUE, ns |-> sub[3]]
      ELSE [ok |-> FALSE, ns |-> ""]

\* serviceaccount.SplitUsername(subject): system:serviceaccount:<namespace>:<name>
SplitUsername(sub) ==
    IF Len(sub) = 4 /\ SubSeq(sub, 1, 2) = <<"system", "serviceaccount">>
                    /\ ValidName(sub[3]) /\ ValidName(sub[4])
      THEN [ok |-> TRUE, ns |-> sub[3]]
      ELSE [ok |-> FALSE, ns |-> ""]

\* faulty variant: the cache not asked whether it is synchronized
NamespaceQualifiesUnsynced(ns, tenant) == tenant.tenantNs # ns /\ ns = "kube-system"

\* tenantMgr.GetTenantNs() != tenantNs && tenantNs == "kube-system" && tenantMgr.WaitForCacheSync()
NamespaceQualifies(ns, tenant) ==
    tenant.tenantNs # ns /\ ns = "kube-system" /\ tenant.synced

\* whether the handler reaches req.Header.Set("Authorization", ...)
SaTokenSubstitute(auth, tenant) ==
    LET oldToken == ParseBearerToken(auth)
        claims   == UnsafeClaimsWithoutVerification(oldToken)
        user     == SplitUsername(claims.Subject)
    IN  /\ oldToken # EmptyToken
        /\ ParseSigned(oldToken)
        /\ claims.ok
        /\ user.ok
        /\ NamespaceQualifies(user.ns, tenant)

\* faulty variant: an invalid bearer token ends the request
SaTokenForwardsFailClosed(auth) ==
    IF ParseBearerToken(auth) # EmptyToken /\ ~ParseSigned(ParseBearerToken(auth))
      THEN 0 ELSE 1

\* how often the handler calls handler.ServeHTTP: once, after the if block
SaTokenForwards(auth) == 1

\* the handler WithSaTokenSubstitute returns, applied to the request received
WithSaTokenSubstitute ==
    /\ step = "ready"
    /\ LET substitute == SaTokenSubstitute(req.authorization, env)
       IN  down' = [down EXCEPT !.calls = @ + SaTokenForwards(req.authorization),
                                !.headerSet = substitute,
                                !.authorization = IF substitute
                                                    THEN Bearer(env.tenantToken)
                                                    ELSE req.authorization]
    /\ step' = "done"
    /\ UNCHANGED <<req, env, resp, selOut>>
    /\ UNCHANGED <<admissionVars, sideVars>>

\* the parts of token subjects tried
SubjectParts == {"system", "serviceaccount", "kube-system", "tenant-a", "", "Bad_Name"}

Tokens ==
    {EmptyToken,
     [form |-> "garbage", claimsOk |-> FALSE, sub |-> <<>>],
     [form |-> "jws", claimsOk |-> FALSE, sub |-> <<>>]}
    \cup {[form |-> "jws", claimsOk |-> TRUE, sub |-> sub] :
             sub \in StringsUpTo(SubjectParts, MaxSubjectLen)}

Authorizations == [scheme : {"", "Basic", "Bearer"}, token : Tokens]

\* the token the tenant manager holds: of an account of the tenant's namespace
TenantToken ==
    [form |-> "jws", claimsOk |-> TRUE,
     sub |-> <<"system", "serviceaccount", "tenant-a", "tenant-a">>]

Tenants == [tenantNs : {"kube-system", "tenant-a"}, synced : BOOLEAN,
            tenantToken : {TenantToken}]

InitToken ==
    /\ IdleAdmission
    /\ IdleSide
    /\ req \in [info : {NoInfo}, query : {NoQuery},
                authorization : {a \in Authorizations : a.scheme = "" => a.token = EmptyToken}]
    /\ env \in Tenants
    /\ down = NoDown
    /\ resp = NoResp
    /\ selOut = NoSelOut
    /\ step = "ready"

NextToken == WithSaTokenSubstitute

SpecToken == InitToken /\ [][NextToken]_vars

(***************************************************************************)
(* selectorString and WithListRequestSelector.                             *)
(***************************************************************************)
\* faulty variant: the two parts joined in the wrong order
selectorStringFieldFirst(lSelector, fSelector) ==
    LET ls == IF lSelector.nil THEN "" ELSE SelectorToString(lSelector)
        fs == IF fSelector.nil THEN "" ELSE SelectorToString(fSelector)
    IN  IF ls # "" /\ fs # "" THEN fs \o "&" \o ls
        ELSE IF ls # "" THEN ls
        ELSE fs

\* selectorString returns the string of label and field selector
selectorString(lSelector, fSelector) ==
    LET ls == IF lSelector.nil THEN "" ELSE SelectorToString(lSelector)
        fs == IF fSelector.nil THEN "" ELSE SelectorToString(fSelector)
    IN  IF ls # "" /\ fs # "" THEN ls \o "&" \o fs
        ELSE IF ls # "" THEN ls
        ELSE IF fs # "" THEN fs
        ELSE ""

\* if info.IsResourceRequest && info.Verb == "list" && info.Name == ""
IsListRequest(info) ==
    info.ok /\ info.IsResourceRequest /\ info.Verb = "list" /\ info.Name = ""

\* the selector string the handler stores in the context ("": none stored)
ListRequestSelector(r) ==
    IF IsListRequest(r.info) /\ ~DecodeParameters(r.query).err
      THEN selectorString(DecodeParameters(r.query).opts.LabelSelector,
                          DecodeParameters(r.query).opts.FieldSelector)
      ELSE ""

\* the handler WithListRequestSelector returns, applied to the request received
WithListRequestSelector ==
    /\ step = "ready"
    /\ LET str == ListRequestSelector(req)
       IN  down' = [down EXCEPT !.calls = @ + 1,
                                !.authorization = req.authorization,
                                !.hasSelector = str # "",
                                !.selector = str]
    /\ step' = "done"
    /\ UNCHANGED <<req, env, resp, selOut>>
    /\ UNCHANGED <<admissionVars, sideVars>>

\* the selectors a caller may pass for a parameter: nil, or what it parses to
SelectorsOf(parsed) == {NilSelector} \cup (IF parsed.ok THEN {parsed.sel} ELSE {})

\* selectorString applied directly to selectors of the request, nil included
ApplySelectorString ==
    /\ step = "ready"
    /\ \E l \in SelectorsOf(ParseLabelSelector(ParamValue(req.query.labelSelector))),
          f \in SelectorsOf(ParseFieldSelector(ParamValue(req.query.fieldSelector))) :
         selOut' = [called |-> TRUE, l |-> l, f |-> f, out |-> selectorString(l, f)]
    /\ step' = "applied"
    /\ UNCHANGED <<req, env, down, resp>>
    /\ UNCHANGED <<admissionVars, sideVars>>

SelectorVerbs == {"get", "list", "watch"}

SelectorQueries ==
    {q \in [labelSelector : Param(StringsUpTo(LabelRequirements, MaxSelectorLen)),
            fieldSelector : Param(StringsUpTo(FieldRequirements, MaxSelectorLen)),
            timeoutSeconds : {<<>>, <<(<<"5">>)>>, <<(<<"x">>)>>},
            timeout : {<<>>}] :
        ParamLen(q.labelSelector) + ParamLen(q.fieldSelector) <= MaxSelectorLen}

InitSelector ==
    /\ IdleAdmission
    /\ IdleSide
    /\ req \in [info : Infos(SelectorVerbs, {"", "n1"}), query : SelectorQueries,
                authorization : {NoAuthorization}]
    /\ env = NoEnv
    /\ down = NoDown
    /\ resp = NoResp
    /\ selOut = NoSelOut
    /\ step = "ready"

NextSelector == WithListRequestSelector \/ ApplySelectorString

SpecSelector == InitSelector /\ [][NextSelector]_vars

(***************************************************************************)
(* WithRequestClientComponent.                                             *)
(***************************************************************************)
\* req.Header.Get(name): the value of the header, empty when it is absent
HeaderGet(header) == ParamValue(header)

\* faulty variant: the case of the User-Agent kept
ToLowerCharKeep(c) == c

\* the lower-case mapping of the characters tried
ToLowerChar(c) ==
    CASE c = "K" -> "k"
      [] c = "T" -> "t"
      [] c = "R" -> "r"
      [] c = "U" -> "u"
      [] c = "E" -> "e"
      [] OTHER -> c

\* strings.ToLower(str)
ToLower(str) == [i \in 1..Len(str) |-> ToLowerChar(str[i])]

\* strings.Index(str, c) counted from 1, 0 when c does not occur
IndexOf(str, c) ==
    IF \E i \in 1..Len(str) : str[i] = c
      THEN CHOOSE i \in 1..Len(str) : str[i] = c /\ \A j \in 1..(i - 1) : str[j] # c
      ELSE 0

RECURSIVE Split(_, _)
\* strings.Split(str, sep) for a separator of one character
Split(str, sep) ==
    IF IndexOf(str, sep) = 0 THEN <<str>>
    ELSE <<SubSeq(str, 1, IndexOf(str, sep) - 1)>> \o Split(Drop(str, IndexOf(str, sep)), sep)

RECURSIVE JoinStrings(_, _)
\* strings.Join(elems, sep)
JoinStrings(elems, sep) ==
    IF elems = <<>> THEN <<>>
    ELSE IF Len(elems) = 1 THEN elems[1]
    ELSE elems[1] \o sep \o JoinStrings(Tail(elems), sep)

RECURSIVE CleanSegments(_, _, _)
\* the loop of filepath.Clean over the segments of a path: empty and "."
\* segments are dropped, ".." removes the segment before it, or is kept at
\* the start of a path that is not rooted
CleanSegments(segs, out, rooted) ==
    IF segs = <<>> THEN out
    ELSE IF Head(segs) = <<>> \/ Head(segs) = <<".">>
      THEN CleanSegments(Tail(segs), out, rooted)
    ELSE IF Head(segs) = <<".", ".">>
      THEN IF out # <<>> /\ out[Len(out)] # <<".", ".">>
             THEN CleanSegments(Tail(segs), SubSeq(out, 1, Len(out) - 1), rooted)
           ELSE IF rooted THEN CleanSegments(Tail(segs), out, rooted)
           ELSE CleanSegments(Tail(segs), Append(out, Head(segs)), rooted)
    ELSE CleanSegments(Tail(segs), Append(out, Head(segs)), rooted)

\* filepath.Clean(path)
Clean(path) ==
    LET rooted  == IF path = <<>> THEN FALSE ELSE Head(path) = "/"
        cleaned == JoinStrings(CleanSegments(Split(path, "/"), <<>>, rooted), <<"/">>)
    IN  IF rooted THEN <<"/">> \o cleaned
        ELSE IF cleaned = <<>> THEN <<".">>
        ELSE cleaned

\* filepath.Join(a, b): empty elements are ignored, the rest joined and cleaned
FilepathJoin(a, b) ==
    IF a = <<>> /\ b = <<>> THEN <<>>
    ELSE IF a = <<>> THEN Clean(b)
    ELSE IF b = <<>> THEN Clean(a)
    ELSE Clean(a \o <<"/">> \o b)

\* strings.Join([]string{"partialobjectmetadatas", convertGVK.Version, convertGVK.Group}, "."),
\* kept as one element of the component it is joined to
PartialObjectMetadataSuffix(gvk) ==
    <<"partialobjectmetadatas" \o "." \o gvk.Version \o "." \o gvk.Group>>

WorkingModeEdge == "edge"

WorkingModeCloud == "cloud"

\* the component the handler stores: <<>> when it stores none
ClientComponent(r, mode) ==
    IF r.info.ok /\ r.info.IsResourceRequest
      THEN LET lowered   == ToLower(HeaderGet(r.userAgent))
               userAgent == IF mode = WorkingModeEdge
                              THEN ToLower(Split(lowered, "/")[1])
                              ELSE lowered
           IN  IF userAgent # <<>>
                 THEN IF r.convertGVK.ok /\ ~r.convertGVK.nil
                        THEN <<FilepathJoin(userAgent, PartialObjectMetadataSuffix(r.convertGVK))>>
                        ELSE <<userAgent>>
                 ELSE <<>>
      ELSE <<>>

\* the handler WithRequestClientComponent returns, applied to the request received
WithRequestClientComponent ==
    /\ step = "ready"
    /\ cdown' = [cdown EXCEPT !.calls = @ + 1,
                              !.clientComponent = ClientComponent(creq, conf.mode),
                              !.convertGVK = creq.convertGVK]
    /\ step' = "done"
    /\ UNCHANGED <<creq, conf>>
    /\ UNCHANGED <<pipelineVars, filterVars, streamVars, batchVars, traceVars>>

\* the characters of the User-Agent values tried
AgentChars == {"K", "u", "/", "."}

Agents == Param(StringsUpTo(AgentChars, MaxAgentLen))

\* the overrides WithPartialObjectMetadataRequest may have stored, and none
ConvertGVKs ==
    {NoGVK, NilGVK, GVK("meta.k8s.io", "v1", "PartialObjectMetadata"),
     GVK("meta.k8s.io", "v1beta1", "PartialObjectMetadataList")}

InitComponent ==
    /\ IdleAdmission
    /\ req = NoRequest
    /\ env = NoEnv
    /\ down = NoDown
    /\ resp = NoResp
    /\ selOut = NoSelOut
    /\ IdleFilter /\ IdleStream /\ IdleBatch /\ IdleTrace
    /\ creq \in [info : CInfos({"get"}, {""}, {"v1"}, {"pods"}), userAgent : Agents,
                  accept : {<<>>}, edgeCache : {<<>>}, convertGVK : ConvertGVKs]
    /\ conf \in [mode : {WorkingModeEdge, WorkingModeCloud},
                  multiplexerUserAgent : {<<>>}, poolScopeMetadata : {{}}]
    /\ cdown = NoCDown
    /\ step = "ready"

NextComponent == WithRequestClientComponent

SpecComponent == InitComponent /\ [][NextComponent]_vars

(***************************************************************************)
(* WithPartialObjectMetadataRequest.  An Accept header is a sequence of    *)
(* clauses; a clause is its media type, its q in tenths (10 when not       *)
(* given) and its g, v and as parameters (empty when not given).           *)
(***************************************************************************)
\* strings.Contains(str, sub)
Contains(str, sub) ==
    \E i \in 0..(Len(str) - Len(sub)) : SubSeq(str, i + 1, i + Len(sub)) = sub

\* the media types tried: a type without '/' is no media range
IsMediaRange(type) == type \in {"application/json", "*/*"}

IsWildcard(type) == type = "*/*"

\* acceptSlice.Less of goautoneg: higher q first, a concrete type before a wildcard
AcceptLess(ai, aj) == ai.q > aj.q \/ (~IsWildcard(ai.type) /\ IsWildcard(aj.type))

RECURSIVE SinkLeft(_, _)
\* for j := i; j > a && data.Less(j, j-1); j-- { data.Swap(j, j-1) }
SinkLeft(seq, j) ==
    IF j > 1 /\ AcceptLess(seq[j], seq[j - 1])
      THEN SinkLeft([seq EXCEPT ![j] = seq[j - 1], ![j - 1] = seq[j]], j - 1)
      ELSE seq

RECURSIVE InsertionSort(_, _)
\* sort.Sort on a short slice: insertion sort
InsertionSort(seq, i) ==
    IF i > Len(seq) THEN seq ELSE InsertionSort(SinkLeft(seq, i), i + 1)

\* goautoneg.ParseAccept(header): the media ranges of the header, sorted
ParseAccept(header) ==
    LET IsRange(clause) == IsMediaRange(clause.type)
    IN  InsertionSort(SelectSeq(header, IsRange), 2)

MetaGroupChars == <<"m", "e", "t", "a", ".", "k", "8", "s", ".", "i", "o">>

V1Chars == <<"v", "1">>

V1Beta1Chars == <<"v", "1", "b", "e", "t", "a", "1">>

\* faulty variant: the declared group not looked at
ensureValidVersionOnly(group, version) ==
    IF Contains(version, V1Chars)
      THEN [err |-> FALSE, Group |-> "meta.k8s.io", Version |-> "v1"]
    ELSE IF Contains(version, V1Beta1Chars)
      THEN [err |-> FALSE, Group |-> "meta.k8s.io", Version |-> "v1beta1"]
    ELSE [err |-> TRUE, Group |-> "meta.k8s.io", Version |-> ""]

\* ensureValidGroupAndVersion(&gvk): the error, and the group and version it leaves
ensureValidGroupAndVersion(group, version) ==
    IF ~Contains(group, MetaGroupChars)
      THEN [err |-> TRUE, Group |-> "", Version |-> ""]
    ELSE IF Contains(version, V1Chars)
      THEN [err |-> FALSE, Group |-> "meta.k8s.io", Version |-> "v1"]
    ELSE IF Contains(version, V1Beta1Chars)
      THEN [err |-> FALSE, Group |-> "meta.k8s.io", Version |-> "v1beta1"]
    ELSE [err |-> TRUE, Group |-> "meta.k8s.io", Version |-> ""]

\* the override the handler stores with util.WithConvertGVK, or the one received
PartialObjectMetadataRequest(r) ==
    IF r.info.ok /\ r.info.IsResourceRequest
      THEN LET clauses == ParseAccept(HeaderGet(r.accept))
               group   == IF Len(clauses) >= 1 THEN clauses[1].g ELSE <<>>
               version == IF Len(clauses) >= 1 THEN clauses[1].v ELSE <<>>
               kind    == IF Len(clauses) >= 1 THEN clauses[1].as ELSE ""
               valid   == ensureValidGroupAndVersion(group, version)
           IN  IF kind = "PartialObjectMetadataList" \/ kind = "PartialObjectMetadata"
                 THEN IF valid.err THEN r.convertGVK
                      ELSE GVK(valid.Group, valid.Version, kind)
                 ELSE r.convertGVK
      ELSE r.convertGVK

\* the handler WithPartialObjectMetadataRequest returns, applied to the request received
WithPartialObjectMetadataRequest ==
    /\ step = "ready"
    /\ cdown' = [cdown EXCEPT !.calls = @ + 1,
                              !.convertGVK = PartialObjectMetadataRequest(creq)]
    /\ step' = "done"
    /\ UNCHANGED <<creq, conf>>
    /\ UNCHANGED <<pipelineVars, filterVars, streamVars, batchVars, traceVars>>

\* the pieces the declared versions tried are made of
VersionPieces == {V1Chars, <<"b", "e", "t", "a", "1">>, <<"x">>}

RECURSIVE Concatenations(_, _)
\* the strings made of exactly n pieces
Concatenations(pieces, n) ==
    IF n = 0 THEN {<<>>}
    ELSE {p \o t : p \in pieces, t \in Concatenations(pieces, n - 1)}

DeclaredVersions == UNION {Concatenations(VersionPieces, n) : n \in 0..MaxVersionLen}

DeclaredGroups ==
    {<<>>, MetaGroupChars, <<"x">> \o MetaGroupChars \o <<"x">>, <<"m", "e", "t", "a">>}

DeclaredKinds == {"", "Table", "PartialObjectMetadata", "PartialObjectMetadataList"}

\* the clauses whose parameters are varied
MainClauses ==
    [type : {"application/json"}, q : {10, 5}, g : DeclaredGroups,
     v : DeclaredVersions, as : DeclaredKinds]

\* the clauses that accompany them: anything, a type without '/' and a less
\* preferred request for partial metadata
OtherClauses ==
    {[type |-> "*/*", q |-> 10, g |-> <<>>, v |-> <<>>, as |-> ""],
     [type |-> "json", q |-> 10, g |-> MetaGroupChars, v |-> V1Chars, as |-> "PartialObjectMetadata"],
     [type |-> "application/json", q |-> 8, g |-> MetaGroupChars, v |-> V1Chars,
      as |-> "PartialObjectMetadataList"]}

\* a sequence with one more element put after its first i elements
InsertAt(seq, i, e) == SubSeq(seq, 1, i) \o <<e>> \o SubSeq(seq, i + 1, Len(seq))

\* a request with an Accept header
PartialMetadataRequest(info, accept) ==
    [info |-> info, userAgent |-> <<>>, accept |-> accept, edgeCache |-> <<>>,
     convertGVK |-> NoGVK]

InitPartialMetadata ==
    /\ IdleAdmission
    /\ IdleStage
    /\ IdleFilter /\ IdleStream /\ IdleBatch /\ IdleTrace
    /\ creq = NoCReq
    /\ conf = NoConf
    /\ cdown = NoCDown

\* a request arrives at the handler: without an Accept header, or with one
\* that holds at most one clause with varied parameters
ReceivePartialMetadata ==
    /\ step = "idle"
    /\ \E info \in CInfos({"list"}, {""}, {"v1"}, {"pods"}) :
         \/ creq' = PartialMetadataRequest(info, <<>>)
         \/ \E h \in StringsUpTo(OtherClauses, MaxAcceptLen) :
               creq' = PartialMetadataRequest(info, <<h>>)
         \/ \E h \in StringsUpTo(OtherClauses, MaxAcceptLen - 1) :
               \E i \in 0..Len(h), m \in MainClauses :
                  creq' = PartialMetadataRequest(info, <<InsertAt(h, i, m)>>)
    /\ step' = "ready"
    /\ UNCHANGED <<conf, cdown>>
    /\ UNCHANGED <<pipelineVars, filterVars, streamVars, batchVars, traceVars>>

NextPartialMetadata == ReceivePartialMetadata \/ WithPartialObjectMetadataRequest

SpecPartialMetadata == InitPartialMetadata /\ [][NextPartialMetadata]_vars

(***************************************************************************)
(* podEnvFilter.  An object is its kind and, for the kinds that hold a pod *)
(* spec, its containers, each with a name and a list of environment        *)
(* variables.  Filter works on the object it is given, not on a copy, and  *)
(* returns the reference it received: obj is that one object.              *)
(***************************************************************************)
envVarServiceHost == "KUBERNETES_SERVICE_HOST"

\* faulty variant: a variable that holds the host already is passed over
mutateEnvSkipCurrent(envs, host) ==
    IF \E j \in 1..Len(envs) : envs[j].Name = envVarServiceHost /\ envs[j].Value # host
      THEN [envs EXCEPT ![CHOOSE j \in 1..Len(envs) :
                            /\ envs[j].Name = envVarServiceHost /\ envs[j].Value # host
                            /\ \A k \in 1..(j - 1) :
                                  ~(envs[k].Name = envVarServiceHost /\ envs[k].Value # host)]
                         .Value = host]
      ELSE envs

\* the inner loop of mutatePodEnv: the first variable named
\* KUBERNETES_SERVICE_HOST gets the host, then break
mutateEnv(envs, host) ==
    IF \E j \in 1..Len(envs) : envs[j].Name = envVarServiceHost
      THEN [envs EXCEPT ![CHOOSE j \in 1..Len(envs) :
                            /\ envs[j].Name = envVarServiceHost
                            /\ \A k \in 1..(j - 1) : envs[k].Name # envVarServiceHost]
                         .Value = host]
      ELSE envs

\* for i := range req.Spec.Containers { ... }; return req
mutatePodEnv(filter, pod) ==
    [pod EXCEPT !.containers =
        [i \in 1..Len(pod.containers) |->
            [pod.containers[i] EXCEPT !.Env = mutateEnv(pod.containers[i].Env, filter.host)]]]

\* faulty variant: every object with a pod spec taken for a Pod
IsPodOrTemplate(o) == o.kind \in {"Pod", "PodTemplate"}

\* case *corev1.Pod
IsPod(o) == o.kind = "Pod"

\* switch v := obj.(type) { case *corev1.Pod: return pef.mutatePodEnv(v); default: return v }
FilterObject(filter, o) == IF IsPod(o) THEN mutatePodEnv(filter, o) ELSE o

\* pef.host = host
SetMasterServiceHost(host) ==
    /\ pef' = [pef EXCEPT !.host = host]
    /\ UNCHANGED <<obj, applied, portCalled>>
    /\ UNCHANGED <<pipelineVars, step, contextVars, streamVars, batchVars, traceVars>>

\* do nothing
SetMasterServicePort ==
    /\ portCalled' = TRUE
    /\ UNCHANGED <<pef, obj, applied>>
    /\ UNCHANGED <<pipelineVars, step, contextVars, streamVars, batchVars, traceVars>>

\* pef.Filter(obj, stopCh), called again on the object it returned
Filter ==
    /\ Len(applied) < MaxApply
    /\ obj' = FilterObject(pef, obj)
    /\ applied' = Append(applied, [host |-> pef.host, before |-> obj,
                                    after |-> FilterObject(pef, obj)])
    /\ UNCHANGED <<pef, portCalled>>
    /\ UNCHANGED <<pipelineVars, step, contextVars, streamVars, batchVars, traceVars>>

masterHost == "169.254.2.1"

\* the hosts the filter is configured with
Hosts == {"", masterHost}

\* the environment variables tried
EnvVars ==
    {[Name |-> envVarServiceHost, Value |-> masterHost],
     [Name |-> envVarServiceHost, Value |-> "original-value"],
     [Name |-> "OTHER_ENV_VAR", Value |-> "some-value"]}

RECURSIVE EnvLists(_, _)
\* the lists of n containers' environments that hold at most k variables together
EnvLists(n, k) ==
    IF n = 0 THEN {<<>>}
    ELSE UNION {{<<e>> \o rest : e \in StringsOver(EnvVars, m), rest \in EnvLists(n - 1, k - m)} :
                   m \in 0..k}

\* the containers of a pod spec: named by their place
Containers ==
    UNION {{[i \in 1..n |-> [Name |-> i, Env |-> envs[i]]] : envs \in EnvLists(n, MaxEnvVars)} :
              n \in 0..MaxEnvVars}

\* the objects tried: Pods, pod templates and a Service
Objects ==
    [kind : {"Pod", "PodTemplate"}, containers : Containers]
       \cup {[kind |-> "Service", containers |-> <<>>]}

InitFilter ==
    /\ IdleAdmission
    /\ IdleStage
    /\ IdleContext /\ IdleStream /\ IdleBatch /\ IdleTrace
    /\ pef = NewPodEnvFilter
    /\ obj \in Objects
    /\ applied = <<>>
    /\ portCalled = FALSE

NextFilter ==
    \/ \E host \in Hosts : SetMasterServiceHost(host)
    \/ SetMasterServicePort
    \/ Filter

SpecFilter == InitFilter /\ [][NextFilter]_vars

(***************************************************************************)
(* ReListWatchReq.  Each call has its own response writer; what reaches    *)
(* the writer is kept in the order it happens.  The stream negotiation and *)
(* the encoding are done by the serializer, which may fail; a frame that   *)
(* fails while it is written has made one write attempt.                   *)
(***************************************************************************)
ReLists == 1..MaxReList

\* string(watch.Error)
WatchError == "ERROR"

\* how streamingEncoder.Encode may end: nil, an error of the serializer
\* before anything is written, an error of the write of the frame
EncodeResults == {"nil", "serialize", "write"}

\* a call of ReListWatchReq(rw, req): whether rw can flush, and what the
\* serializer will answer
ReListCalls ==
    [pc : {"called"}, flusher : BOOLEAN, negotiateErr : BOOLEAN,
     encodeResult : EncodeResults, out : {<<>>}]

\* _, streamingSerializer, framer, err := ...StreamDecoder(mediaType, params); if err != nil { return }
StreamDecoder(r) ==
    /\ stream[r].pc = "called"
    /\ stream' = [stream EXCEPT ![r].pc = IF stream[r].negotiateErr THEN "returned"
                                                                      ELSE "negotiated"]
    /\ UNCHANGED <<pipelineVars, step, contextVars, filterVars, batchVars, traceVars>>

\* what streamingEncoder.Encode(outEvent) does to the writer
EncodeWrites(result) ==
    CASE result = "nil" -> <<[op |-> "write", type |-> WatchError, complete |-> TRUE]>>
      [] result = "write" -> <<[op |-> "write", type |-> WatchError, complete |-> FALSE]>>
      [] result = "serialize" -> <<>>

\* if err := streamingEncoder.Encode(outEvent); err != nil { return }
Encode(r) ==
    /\ stream[r].pc = "negotiated"
    /\ stream' = [stream EXCEPT ![r].out = @ \o EncodeWrites(stream[r].encodeResult),
                                ![r].pc = IF stream[r].encodeResult = "nil" THEN "encoded"
                                                                            ELSE "returned"]
    /\ UNCHANGED <<pipelineVars, step, contextVars, filterVars, batchVars, traceVars>>

\* rw.(http.Flusher).Flush(): panics when rw has no Flush to call
Flush(r) ==
    /\ stream[r].pc = "encoded"
    /\ stream' = IF stream[r].flusher
                   THEN [stream EXCEPT ![r].out = Append(@, [op |-> "flush"]),
                                       ![r].pc = "returned"]
                   ELSE [stream EXCEPT ![r].pc = "panicked"]
    /\ UNCHANGED <<pipelineVars, step, contextVars, filterVars, batchVars, traceVars>>

InitReList ==
    /\ IdleAdmission
    /\ IdleStage
    /\ IdleContext /\ IdleFilter /\ IdleBatch /\ IdleTrace
    /\ stream \in [ReLists -> ReListCalls]

NextReList == \E r \in ReLists : StreamDecoder(r) \/ Encode(r) \/ Flush(r)

SpecReList == InitReList /\ [][NextReList]_vars

(***************************************************************************)
(* WithIsRequestForPoolScopeMetadata.                                      *)
(***************************************************************************)
\* schema.GroupVersionResource
GVR(g, v, r) == [Group |-> g, Version |-> v, Resource |-> r]

\* multiplexerManager.IsPoolScopeMetadata(gvr): the resource is registered
IsPoolScopeMetadata(manager, gvr) == gvr \in manager

\* faulty variant: the requests of the multiplexer not told apart
isMultiplexerRequestAnyAgent(r, manager, multiplexerUserAgent) ==
    IF ~r.info.ok THEN FALSE
    ELSE IF r.info.Verb # "list" /\ r.info.Verb # "watch" THEN FALSE
    ELSE IsPoolScopeMetadata(manager,
                             GVR(r.info.APIGroup, r.info.APIVersion, r.info.Resource))

\* isMultiplexerRequest(req, multiplexerManager, multiplexerUserAgent)
isMultiplexerRequest(r, manager, multiplexerUserAgent) ==
    IF HeaderGet(r.userAgent) = multiplexerUserAgent THEN FALSE
    ELSE IF ~r.info.ok THEN FALSE
    ELSE IF r.info.Verb # "list" /\ r.info.Verb # "watch" THEN FALSE
    ELSE IsPoolScopeMetadata(manager,
                             GVR(r.info.APIGroup, r.info.APIVersion, r.info.Resource))

\* the handler WithIsRequestForPoolScopeMetadata returns, applied to the request received
WithIsRequestForPoolScopeMetadata ==
    /\ step = "ready"
    /\ cdown' = [cdown EXCEPT
                    !.calls = @ + 1,
                    !.convertGVK = creq.convertGVK,
                    !.poolScopeSet = TRUE,
                    !.poolScope = isMultiplexerRequest(creq, conf.poolScopeMetadata,
                                                       conf.multiplexerUserAgent)]
    /\ step' = "done"
    /\ UNCHANGED <<creq, conf>>
    /\ UNCHANGED <<pipelineVars, filterVars, streamVars, batchVars, traceVars>>

\* the registrations of the multiplexer manager tried
PoolScopeRegistries ==
    {{}, {GVR("", "v1", "services")},
     {GVR("", "v1", "services"), GVR("discovery.k8s.io", "v1", "endpointslices")}}

InitPoolScope ==
    /\ IdleAdmission
    /\ req = NoRequest
    /\ env = NoEnv
    /\ down = NoDown
    /\ resp = NoResp
    /\ selOut = NoSelOut
    /\ IdleFilter /\ IdleStream /\ IdleBatch /\ IdleTrace
    /\ creq \in [info : CInfos({"get", "list", "watch"}, {"", "discovery.k8s.io"}, {"v1"},
                                {"services", "endpointslices"}),
                  userAgent : Param(StringsUpTo({"K", "u"}, MaxAgentLen)),
                  accept : {<<>>}, edgeCache : {<<>>}, convertGVK : {NoGVK}]
    /\ conf \in [mode : {WorkingModeEdge},
                  multiplexerUserAgent : {<<>>, <<"K", "u">>, <<"u", "K">>},
                  poolScopeMetadata : PoolScopeRegistries]
    /\ cdown = NoCDown
    /\ step = "ready"

NextPoolScope == WithIsRequestForPoolScopeMetadata

SpecPoolScope == InitPoolScope /\ [][NextPoolScope]_vars

(***************************************************************************)
(* WithCacheHeaderCheck.                                                   *)
(***************************************************************************)
\* the value that asks for caching, compared after strings.ToLower
TrueChars == <<"t", "r", "u", "e">>

\* faulty variant: the value compared as it was sent
NeedToCacheExact(value) == value = TrueChars

\* needToCache := strings.ToLower(req.Header.Get(canCacheHeader)); needToCache == "true"
NeedToCache(value) == ToLower(value) = TrueChars

\* the handler WithCacheHeaderCheck returns, applied to the request received:
\* the flag is stored and the header deleted only inside
\* if info, ok := ...; ok { if info.IsResourceRequest { ... } }
WithCacheHeaderCheck ==
    /\ step = "ready"
    /\ cdown' = IF creq.info.ok /\ creq.info.IsResourceRequest
                  THEN [cdown EXCEPT !.calls = @ + 1,
                                     !.canCache = NeedToCache(HeaderGet(creq.edgeCache)),
                                     !.edgeCache = <<>>]
                  ELSE [cdown EXCEPT !.calls = @ + 1,
                                     !.edgeCache = creq.edgeCache]
    /\ step' = "done"
    /\ UNCHANGED <<creq, conf>>
    /\ UNCHANGED <<pipelineVars, filterVars, streamVars, batchVars, traceVars>>

\* the characters of the Edge-Cache values tried
CacheHeaderChars == {"t", "T", "r", "u", "e", "E", "x"}

InitCacheHeader ==
    /\ IdleAdmission
    /\ req = NoRequest
    /\ env = NoEnv
    /\ down = NoDown
    /\ resp = NoResp
    /\ selOut = NoSelOut
    /\ IdleFilter /\ IdleStream /\ IdleBatch /\ IdleTrace
    /\ creq \in [info : CInfos({"get"}, {""}, {"v1"}, {"pods"}), userAgent : {<<>>},
                  accept : {<<>>},
                  edgeCache : Param(StringsUpTo(CacheHeaderChars, MaxCacheHeaderLen)),
                  convertGVK : {NoGVK}]
    /\ conf = NoConf
    /\ cdown = NoCDown
    /\ step = "ready"

NextCacheHeader == WithCacheHeaderCheck

SpecCacheHeader == InitCacheHeader /\ [][NextCacheHeader]_vars

(***************************************************************************)
(* WithRequestContentType.  The handler reads the Accept header as text:   *)
(* here the header is its characters.                                      *)
(***************************************************************************)
\* the marker searched in the parameters of the first clause
AsMarkerChars == <<"a", "s", "=">>

\* the content type the handler stores: <<>> when it stores none
RequestContentType(r) ==
    IF r.info.ok /\ r.info.IsResourceRequest
      THEN LET header   == HeaderGet(r.accept)
               parts    == Split(header, ",")
               first    == parts[1]
               subParts == Split(first, ";")
               contentType ==
                   IF \E i \in 1..Len(subParts) : Contains(subParts[i], AsMarkerChars)
                     THEN subParts[1]
                     ELSE first
           IN  IF Len(contentType) # 0 THEN <<contentType>> ELSE <<>>
      ELSE <<>>

\* the handler WithRequestContentType returns, applied to the request received
WithRequestContentType ==
    /\ step = "ready"
    /\ cdown' = [cdown EXCEPT !.calls = @ + 1,
                              !.contentType = RequestContentType(creq)]
    /\ step' = "done"
    /\ UNCHANGED <<creq, conf>>
    /\ UNCHANGED <<pipelineVars, filterVars, streamVars, batchVars, traceVars>>

\* the characters of the Accept headers tried: "j" stands for a media type
ContentChars == {"j", ";", ",", "a", "s", "="}

InitContentType ==
    /\ IdleAdmission
    /\ req = NoRequest
    /\ env = NoEnv
    /\ down = NoDown
    /\ resp = NoResp
    /\ selOut = NoSelOut
    /\ IdleFilter /\ IdleStream /\ IdleBatch /\ IdleTrace
    /\ creq \in [info : CInfos({"get"}, {""}, {"v1"}, {"pods"}), userAgent : {<<>>},
                  accept : Param(StringsUpTo(ContentChars, MaxContentLen)),
                  edgeCache : {<<>>},
                  convertGVK : {NoGVK}]
    /\ conf = NoConf
    /\ cdown = NoCDown
    /\ step = "ready"

NextContentType == WithRequestContentType

SpecContentType == InitContentType /\ [][NextContentType]_vars

(***************************************************************************)
(* WithRequestTrace and wrapperResponseWriter.  Requests pass the wrapper  *)
(* concurrently; the downstream handler gets the wrapped writer and may    *)
(* flush or hijack through it before it returns or panics.                 *)
(***************************************************************************)
TraceRequests == 1..MaxTrace

\* the label values (verb, resource, subresource, client) of a request
TraceLabels(info, client) ==
    [verb |-> info.Verb, resource |-> info.Resource, subresource |-> "", client |-> client]

\* the requests tried: without request info, not resource-addressed, get and list of pods
TraceInfos == CInfos({"get", "list"}, {""}, {"v1"}, {"pods"}) \ {i \in CInfos({"get", "list"}, {""}, {"v1"}, {"pods"}) : i.ok /\ ~i.IsResourceRequest /\ i.Verb = "list"}

\* the label values that occur
AllTraceLabels == {TraceLabels(i, "kubelet") : i \in TraceInfos}

\* if ok { if info.IsResourceRequest { ... } }: the request touches a gauge
TouchesGauge(info) == info.ok /\ info.IsResourceRequest

\* metrics.Metrics.IncInFlightRequests(...) / IncInFlightMultiplexerRequests(...)
IncInFlight(gauge, labels) == [gauge EXCEPT ![labels] = @ + 1]

\* metrics.Metrics.DecInFlightRequests(...) / DecInFlightMultiplexerRequests(...)
DecInFlight(gauge, labels) == [gauge EXCEPT ![labels] = @ - 1]

\* newWrapperResponseWriter(w): the embedded Flusher and Hijacker are nil when
\* w is neither, and each missing one is logged
newWrapperResponseWriter(w) ==
    [flusherNil |-> ~w.flusher, hijackerNil |-> ~w.hijacker,
     logged |-> (IF w.flusher THEN 0 ELSE 1) + (IF w.hijacker THEN 0 ELSE 1)]

\* the state before any request arrived, for response writers of one kind;
\* flag is the pool-scope flag in the context of the request that entered last
TraceStart(w) ==
    [pc |-> [r \in TraceRequests |-> "new"],
     info |-> [r \in TraceRequests |-> NoCInfo],
     isPool |-> [r \in TraceRequests |-> FALSE],
     flag |-> "absent",
     outcome |-> [r \in TraceRequests |-> "none"],
     logged |-> [r \in TraceRequests |-> 0],
     w |-> w,
     inFlight |-> [l \in AllTraceLabels |-> 0],
     inFlightMultiplexer |-> [l \in AllTraceLabels |-> 0]]

\* the handler up to handler.ServeHTTP(wrapperRW, req)
TraceEnter(r) ==
    /\ trace.pc[r] = "new"
    /\ \E info \in TraceInfos, f \in PoolScopeFlags :
         LET isPool == IsRequestForPoolScopeMetadataFrom(f)
             labels == TraceLabels(info, "kubelet")
         IN  trace' = [trace EXCEPT
                 !.pc[r] = "serving",
                 !.info[r] = info,
                 !.isPool[r] = isPool,
                 !.flag = f,
                 !.logged[r] = newWrapperResponseWriter(trace.w).logged,
                 !.inFlight = IF TouchesGauge(info) /\ ~isPool
                                THEN IncInFlight(@, labels) ELSE @,
                 !.inFlightMultiplexer = IF TouchesGauge(info) /\ isPool
                                           THEN IncInFlight(@, labels) ELSE @]
    /\ UNCHANGED <<pipelineVars, step, contextVars, filterVars, streamVars, batchVars>>

\* the downstream handler calls Flush or Hijack on the writer it was given,
\* as ReListWatchReq does with rw.(http.Flusher).Flush(): the wrapper has
\* both methods whatever w is, and a call through a nil embedded interface
\* is a nil dereference; a call that succeeds goes to w and leaves the
\* wrapper and the gauges as they are
DownstreamUses(r, capability) ==
    /\ trace.pc[r] = "serving"
    /\ LET wrapperRW == newWrapperResponseWriter(trace.w)
           isNil == IF capability = "flush" THEN wrapperRW.flusherNil
                                            ELSE wrapperRW.hijackerNil
       IN  trace' = IF isNil
                      THEN [trace EXCEPT !.pc[r] = "unwinding",
                                         !.outcome[r] = IF capability = "flush"
                                                          THEN "nilFlusher" ELSE "nilHijacker"]
                      ELSE trace
    /\ UNCHANGED <<pipelineVars, step, contextVars, filterVars, streamVars, batchVars>>

\* handler.ServeHTTP(wrapperRW, req) ends: by returning or by a panic of its own
DownstreamEnds(r) ==
    /\ trace.pc[r] = "serving"
    /\ \E o \in {"returned", "panicked"} :
         trace' = [trace EXCEPT !.pc[r] = "unwinding", !.outcome[r] = o]
    /\ UNCHANGED <<pipelineVars, step, contextVars, filterVars, streamVars, batchVars>>

\* faulty variant: the decrement after the call instead of deferred
DecrementsOnReturnOnly(o) == o = "returned"

\* defer metrics.Metrics.DecInFlight...(...) runs on every way out
Decrements(o) == TRUE

\* the deferred calls: the latency record, then the decrement with the
\* label values and the family evaluated at the defer statement; the request
\* and its context are gone afterwards
TraceExit(r) ==
    /\ trace.pc[r] = "unwinding"
    /\ LET labels == TraceLabels(trace.info[r], "kubelet")
           dec == TouchesGauge(trace.info[r]) /\ Decrements(trace.outcome[r])
       IN  trace' = [trace EXCEPT
                 !.pc[r] = "done",
                 !.info[r] = NoCInfo,
                 !.isPool[r] = FALSE,
                 !.inFlight = IF dec /\ ~trace.isPool[r] THEN DecInFlight(@, labels) ELSE @,
                 !.inFlightMultiplexer = IF dec /\ trace.isPool[r]
                                           THEN DecInFlight(@, labels) ELSE @]
    /\ UNCHANGED <<pipelineVars, step, contextVars, filterVars, streamVars, batchVars>>

\* the response writers tried: with both capabilities, without flush,
\* without hijack
TraceWriters == {w \in [flusher : BOOLEAN, hijacker : BOOLEAN] : w.flusher \/ w.hijacker}

InitTrace ==
    /\ IdleAdmission
    /\ IdleStage
    /\ IdleContext /\ IdleFilter /\ IdleStream /\ IdleBatch
    /\ \E w \in TraceWriters : trace = TraceStart(w)

NextTrace ==
    \E r \in TraceRequests :
       \/ TraceEnter(r)
       \/ \E capability \in {"flush", "hijack"} : DownstreamUses(r, capability)
       \/ DownstreamEnds(r)
       \/ TraceExit(r)

SpecTrace == InitTrace /\ [][NextTrace]_vars

(***************************************************************************)
(* SlowStartBatch.  The caller's goroutine runs the loop; every call of fn *)
(* runs in a goroutine of its own, which may start while the caller still  *)
(* starts the others of the batch.  fn is the caller's: each call returns  *)
(* nil or an error, named after its index.                                 *)
(***************************************************************************)
\* faulty variant: the first argument whatever the second is
IntMinFirst(a, b) == a

\* integer.IntMin(a, b)
IntMin(a, b) == IF a < b THEN a ELSE b

\* the indices fn can be called with
Indices == 0..(MaxCount - 1)

\* a goroutine that was not started
NoWorker == [state |-> "none", batch |-> 0, err |-> FALSE, calls |-> 0]

\* the state at the first test of the loop of SlowStartBatch(count, initialBatchSize, fn);
\* sizes are the sizes of the batches started, w[idx].calls the calls of fn(idx)
SlowStartBatchCall(count, initialBatchSize) ==
    [pc |-> "for", count |-> count, initialBatchSize |-> initialBatchSize,
     remaining |-> count, successes |-> 0, index |-> 0,
     batchSize |-> IntMin(count, initialBatchSize), batchNo |-> 0, i |-> 0,
     sizes |-> <<>>,
     errCh |-> <<>>, wg |-> 0, w |-> [idx \in Indices |-> NoWorker],
     result |-> [n |-> 0, errs |-> <<>>]]

\* for ...; batchSize > 0; ... { errCh := make(chan error, batchSize); wg.Add(batchSize)
\* and, when the loop ends, return successes, nil
LoopTest ==
    /\ batch.pc = "for"
    /\ batch' = IF batch.batchSize > 0
                  THEN [batch EXCEPT !.pc = "spawn", !.errCh = <<>>, !.wg = batch.batchSize,
                                     !.i = 0, !.batchNo = @ + 1,
                                     !.sizes = Append(@, batch.batchSize)]
                  ELSE [batch EXCEPT !.pc = "returned",
                                     !.result = [n |-> batch.successes, errs |-> <<>>]]
    /\ UNCHANGED <<pipelineVars, step, contextVars, filterVars, streamVars, traceVars>>

\* for i := 0; i < batchSize; i++ { go func(idx int) {...}(index); index++ }
Spawn ==
    /\ batch.pc = "spawn"
    /\ batch.index \in Indices
    /\ batch' = [batch EXCEPT !.w[batch.index] = [state |-> "spawned", batch |-> batch.batchNo,
                                                  err |-> FALSE,
                                                  calls |-> batch.w[batch.index].calls],
                              !.index = @ + 1,
                              !.i = @ + 1,
                              !.pc = IF batch.i + 1 < batch.batchSize THEN "spawn" ELSE "wait"]
    /\ UNCHANGED <<pipelineVars, step, contextVars, filterVars, streamVars, traceVars>>

\* the goroutine calls fn(idx)
CallFn(idx) ==
    /\ batch.pc \in {"spawn", "wait"}
    /\ batch.w[idx].state = "spawned"
    /\ batch' = [batch EXCEPT !.w[idx].state = "running", !.w[idx].calls = @ + 1]
    /\ UNCHANGED <<pipelineVars, step, contextVars, filterVars, streamVars, traceVars>>

\* if err := fn(idx); err != nil { errCh <- err }
FnReturns(idx, failed) ==
    /\ batch.pc \in {"spawn", "wait"}
    /\ batch.w[idx].state = "running"
    /\ batch' = [batch EXCEPT !.w[idx].state = "returned",
                              !.w[idx].err = failed,
                              !.errCh = IF failed THEN Append(@, idx) ELSE @]
    /\ UNCHANGED <<pipelineVars, step, contextVars, filterVars, streamVars, traceVars>>

\* defer wg.Done()
Done(idx) ==
    /\ batch.pc \in {"spawn", "wait"}
    /\ batch.w[idx].state = "returned"
    /\ batch' = [batch EXCEPT !.w[idx].state = "done", !.wg = @ - 1]
    /\ UNCHANGED <<pipelineVars, step, contextVars, filterVars, streamVars, traceVars>>

\* faulty variant: the wait over while one goroutine is still running
WaitReturnsEarly(wg) == wg <= 1

\* wg.Wait() returns when the counter is zero
WaitReturns(wg) == wg = 0

\* faulty variant: the failed calls counted as well
CurSuccessesAll(batchSize, errCh) == batchSize

\* curSuccesses := batchSize - len(errCh)
CurSuccesses(batchSize, errCh) == batchSize - Len(errCh)

\* wg.Wait(); successes += curSuccesses; close(errCh); if len(errCh) > 0 { return
\* successes, utilerrors.NewAggregate(errs) }; remaining -= batchSize; and the
\* post statement batchSize = integer.IntMin(2*batchSize, remaining)
Wait ==
    /\ batch.pc = "wait"
    /\ WaitReturns(batch.wg)
    /\ LET successes == batch.successes + CurSuccesses(batch.batchSize, batch.errCh)
           remaining == batch.remaining - batch.batchSize
       IN  batch' = IF Len(batch.errCh) > 0
                      THEN [batch EXCEPT !.pc = "returned", !.successes = successes,
                                         !.result = [n |-> successes, errs |-> batch.errCh]]
                      ELSE [batch EXCEPT !.pc = "for", !.successes = successes,
                                         !.remaining = remaining,
                                         !.batchSize = IntMin(2 * batch.batchSize, remaining)]
    /\ UNCHANGED <<pipelineVars, step, contextVars, filterVars, streamVars, traceVars>>

InitBatch ==
    /\ IdleAdmission
    /\ IdleStage
    /\ IdleContext /\ IdleFilter /\ IdleStream /\ IdleTrace
    /\ \E count \in (-1)..MaxCount, initialBatchSize \in (-1)..MaxInitialBatchSize :
          batch = SlowStartBatchCall(count, initialBatchSize)

NextBatch ==
    \/ LoopTest
    \/ Spawn
    \/ Wait
    \/ \E idx \in Indices :
          \/ CallFn(idx)
          \/ \E failed \in BOOLEAN : FnReturns(idx, failed)
          \/ Done(idx)

SpecBatch == InitBatch /\ [][NextBatch]_vars

Init == InitAdmission /\ IdleStage /\ IdleSide

Next ==
    \E r \in Requests :
       \/ Admit(r)
       \/ Reject(r)
       \/ HandlerReturn(r)
       \/ Release(r)

Spec == Init /\ [][Next]_vars


(***************************************************************************)
(* Claims about the admission gate.                                        *)
(***************************************************************************)
\* the tracked requests of a pool that are inside the downstream handler
InHandler(isPool) == {r \in Requests : pc[r] = "serving" /\ pool[r] = isPool}

\* the tracked requests of a pool that hold a token
Holding(isPool) == {r \in Requests : pc[r] \in {"serving", "deferred"} /\ pool[r] = isPool}

\* the capacity the configuration gives a pool
Capacity(isPool) == IF isPool THEN MultiplexerCap ELSE limit

C1_Bound ==
    /\ limit > 0 => Cardinality(InHandler(FALSE)) <= limit
    /\ background + Cardinality(InHandler(TRUE)) <= MultiplexerCap

C1_Arrival ==
    \A r \in Requests :
       (pc[r] = "new" /\ pc'[r] # "new" /\ (pool'[r] \/ limit > 0)) =>
          /\ ChanOf(pool'[r]).len < Capacity(pool'[r]) => pc'[r] = "serving"
          /\ ChanOf(pool'[r]).len = Capacity(pool'[r]) => pc'[r] = "rejected"
          /\ ChanOf(pool'[r]).len <= Capacity(pool'[r])

\* C1: with an ordinary limit N > 0 at most N ordinary requests, and at most
\* 4096 pool-scope requests, are inside the downstream handler at any time; a
\* request arriving at a pool holding fewer tokens than its capacity is
\* admitted, one arriving at a pool holding exactly its capacity is rejected.
C1_AdmissionBound == [](C1_Bound) /\ [][C1_Arrival]_vars

\* an ordinary request was rejected at a full ordinary pool while a pool-scope
\* request was rejected at a full pool-scope pool
C1_Witness ==
    /\ limit > 0
    /\ Cardinality(InHandler(FALSE)) = limit
    /\ background + Cardinality(InHandler(TRUE)) = MultiplexerCap
    /\ \E r \in Requests : pc[r] = "rejected" /\ ~pool[r]
    /\ \E r \in Requests : pc[r] = "rejected" /\ pool[r]

C2_TokensHeld ==
    /\ reqChan.len = Cardinality(Holding(FALSE))
    /\ multiplexerReqChan.len = background + Cardinality(Holding(TRUE))
    /\ (background = 0 /\ \A r \in Requests : pc[r] \in {"new", "done", "rejected"}) =>
          reqChan.len = 0 /\ multiplexerReqChan.len = 0

C2_Completion ==
    \A r \in Requests :
       (pc[r] = "deferred" /\ pc'[r] = "done") =>
          /\ TrySend(ChanOf(pool[r]))'
          /\ ChanOf(pool[r])'.len = ChanOf(pool[r]).len - 1
          /\ ChanOf(~pool[r])' = ChanOf(~pool[r])

\* C2: every token acquired is released exactly once when the downstream
\* handling ends, however it ends (return, error response, panic): each pool
\* holds exactly the tokens of its admitted, unfinished requests, both pools
\* are empty once every admitted request has completed, and right after a
\* request completes its pool has room for a new one.
C2_NoLeak == [](C2_TokensHeld) /\ [][C2_Completion]_vars

\* a request was admitted to the full ordinary pool after a panicking request
\* released its token, and a request that ended in an error response is done
C2_Witness ==
    /\ limit = 1
    /\ \E r1, r2, r3 \in Requests :
          /\ pc[r1] = "done" /\ outcome[r1] = "panic" /\ ~pool[r1]
          /\ pc[r2] = "serving" /\ ~pool[r2] /\ r2 > r1
          /\ pc[r3] = "done" /\ outcome[r3] = "error"

\* C3: with a non-positive limit the ordinary gate is disabled: every
\* ordinary request is admitted and forwarded downstream, none gets a 429.
C3_DisabledGate ==
    limit <= 0 =>
       \A r \in Requests :
          (pc[r] # "new" /\ ~pool[r]) =>
             pc[r] # "rejected" /\ status[r] # StatusTooManyRequests /\ served[r] = 1

C4_Rejection ==
    \A r \in Requests :
       (pc[r] = "new" /\ pc'[r] = "rejected") =>
          /\ status'[r] = StatusTooManyRequests
          /\ retryAfter'[r] = RetryAfter
          /\ served'[r] = 0
          /\ IF pool'[r]
               THEN /\ metrics'.rejectedMultiplexer = metrics.rejectedMultiplexer + 1
                    /\ metrics'.rejected = metrics.rejected
               ELSE /\ metrics'.rejected = metrics.rejected + 1
                    /\ metrics'.rejectedMultiplexer = metrics.rejectedMultiplexer
          /\ reqChan' = reqChan
          /\ multiplexerReqChan' = multiplexerReqChan

C4_Rejected ==
    \A r \in Requests :
       pc[r] = "rejected" =>
          status[r] = StatusTooManyRequests /\ retryAfter[r] = RetryAfter /\ served[r] = 0

\* C4: a rejection answers 429 with Retry-After 1, increments the rejected
\* counter of the request's pool and no other, never invokes the downstream
\* handler and leaves the occupancy of both pools unchanged.
C4_RejectionIsTerminal == [](C4_Rejected) /\ [][C4_Rejection]_vars

\* a request of each pool was rejected at its full pool
C4_Witness ==
    /\ limit > 0
    /\ metrics.rejected = 1
    /\ metrics.rejectedMultiplexer = 1
    /\ reqChan.len = limit
    /\ multiplexerReqChan.len = MultiplexerCap
    /\ \E r \in Requests : pc[r] = "rejected" /\ ~pool[r] /\ status[r] = StatusTooManyRequests


(***************************************************************************)
(* Claims about the timeout adjuster.                                      *)
(***************************************************************************)
\* the stage returned for a resource-addressed request of this verb
TimeoutDone(verb) ==
    step = "done" /\ req.info.ok /\ req.info.IsResourceRequest /\ req.info.Verb = verb

\* a decodable watch or list request that carries timeoutSeconds
HasTimeoutSeconds ==
    req.query.timeoutSeconds # <<>> /\ ~DecodeParameters(req.query).err

\* the value T of timeoutSeconds
RequestedSeconds == ParseInt(ParamValue(req.query.timeoutSeconds)).val

\* the parsed raw timeout of a get request, in milliseconds
RequestedDuration == ParseDuration(ParamValue(req.query.timeout))

\* C5 as stated: every watch request with timeoutSeconds = T gets a deadline
\* of exactly T+15 seconds installed before the downstream handler runs.
C5_WatchDeadlineAlways ==
    (TimeoutDone("watch") /\ HasTimeoutSeconds) =>
       /\ down.calls = 1
       /\ down.hasDeadline
       /\ down.deadline = (RequestedSeconds + 15) * 1000

\* C5 amended: a watch request with timeoutSeconds = T gets a deadline of
\* exactly T+15 seconds when T > -15, and no deadline when T <= -15; it is
\* forwarded downstream either way.
C5_WatchDeadline ==
    (TimeoutDone("watch") /\ HasTimeoutSeconds) =>
       /\ down.calls = 1
       /\ IF RequestedSeconds > -15
            THEN down.hasDeadline /\ down.deadline = (RequestedSeconds + 15) * 1000
            ELSE ~down.hasDeadline

\* watch?timeoutSeconds=5 was forwarded with a deadline of 20 seconds
C5_Witness ==
    /\ TimeoutDone("watch")
    /\ req.query.timeoutSeconds = <<(<<"5">>)>>
    /\ down.calls = 1
    /\ down.hasDeadline
    /\ down.deadline = 20000

C6_WitnessGet ==
    /\ TimeoutDone("get")
    /\ req.query.timeout = <<(<<"3", "s">>)>>
    /\ down.hasDeadline
    /\ down.deadline = 1000

\* C7: a resource-addressed list or watch request whose list options cannot
\* be decoded is answered 400, never reaches the downstream handler and gets
\* no deadline; every other request reaches the downstream handler once.
C7_FailClosedDecoding ==
    step = "done" =>
       IF (TimeoutDone("list") \/ TimeoutDone("watch")) /\ DecodeParameters(req.query).err
         THEN resp.status = 400 /\ down.calls = 0 /\ ~down.hasDeadline
         ELSE resp.status = 0 /\ down.calls = 1

\* watch?timeoutSeconds=x was answered 400 and not forwarded
C7_Witness ==
    /\ TimeoutDone("watch")
    /\ req.query.timeoutSeconds = <<(<<"x">>)>>
    /\ req.query.labelSelector = <<>>
    /\ resp.status = 400
    /\ down.calls = 0


(***************************************************************************)
(* Claims about the credential rewriter.                                   *)
(***************************************************************************)
\* the request carries a parseable bearer JWT with claims
CarriesBearerJWT ==
    /\ req.authorization.scheme = "Bearer"
    /\ req.authorization.token.form = "jws"
    /\ req.authorization.token.claimsOk

\* the subject of the request's token
Subject == req.authorization.token.sub

\* the subject is system:serviceaccount:<namespace>:<account>
SubjectIsServiceAccount ==
    /\ Len(Subject) = 4
    /\ Subject[1] = "system"
    /\ Subject[2] = "serviceaccount"
    /\ Subject[3] \notin {"", "Bad_Name"}
    /\ Subject[4] \notin {"", "Bad_Name"}

\* C8: the Authorization header is replaced by 'Bearer <tenant token>' if and
\* only if the request carries a parseable bearer JWT whose subject is a
\* service account of a namespace that differs from the tenant namespace and
\* is kube-system, and the tenant cache is synchronized; otherwise the header
\* reaches the downstream handler unchanged.
C8_RewriteCondition ==
    step = "done" =>
       /\ down.headerSet <=>
             /\ CarriesBearerJWT
             /\ SubjectIsServiceAccount
             /\ Subject[3] # env.tenantNs
             /\ Subject[3] = "kube-system"
             /\ env.synced
       /\ down.headerSet => down.authorization = [scheme |-> "Bearer", token |-> env.tenantToken]
       /\ ~down.headerSet => down.authorization = req.authorization
       /\ (env.tenantNs = "kube-system" \/ ~env.synced) => down.authorization = req.authorization

\* a kube-system token was replaced by the token of tenant-a
C8_Witness ==
    /\ step = "done"
    /\ Subject = <<"system", "serviceaccount", "kube-system", "tenant-a">>
    /\ CarriesBearerJWT
    /\ env.tenantNs = "tenant-a"
    /\ env.synced
    /\ down.headerSet
    /\ down.authorization = [scheme |-> "Bearer", token |-> TenantToken]
    /\ down.authorization # req.authorization

\* some step of reading the token failed: no well-formed bearer header, no
\* JWS, no claims, or a subject that is no service-account username
TokenParseFailed == ~(CarriesBearerJWT /\ SubjectIsServiceAccount)

\* C9: the rewriter never ends a request: the downstream handler is invoked
\* exactly once for every request, and whenever a step of reading the token
\* failed the Authorization header reaching it is the one received.
C9_FailOpen ==
    step = "done" =>
       /\ down.calls = 1
       /\ TokenParseFailed => (down.authorization = req.authorization /\ ~down.headerSet)

\* a bearer token that is no JWS was forwarded unchanged with a synchronized
\* tenant of another namespace
C9_Witness ==
    /\ step = "done"
    /\ req.authorization.scheme = "Bearer"
    /\ req.authorization.token.form = "garbage"
    /\ env.tenantNs = "tenant-a"
    /\ env.synced
    /\ down.calls = 1
    /\ down.authorization = req.authorization

(***************************************************************************)
(* Claims about the selector string.                                       *)
(***************************************************************************)
\* what a selector renders to, nothing when it is absent
Rendered(sel) == IF sel.nil THEN "" ELSE SelectorToString(sel)

\* label&field when both render non-empty, else the non-empty one, else empty
JoinedSelector(l, f) ==
    CASE Rendered(l) # "" /\ Rendered(f) # "" -> Rendered(l) \o "&" \o Rendered(f)
      [] Rendered(l) # "" /\ Rendered(f) = "" -> Rendered(l)
      [] Rendered(l) = "" /\ Rendered(f) # "" -> Rendered(f)
      [] Rendered(l) = "" /\ Rendered(f) = "" -> ""

\* C10: the selector string of a pair of (possibly absent) label and field
\* selectors is 'label&field' when both render non-empty, the non-empty one
\* when only one does, and empty when neither does; WithListRequestSelector
\* stores it only when it is non-empty and only for resource list requests
\* with an empty target name.
C10_SelectorString ==
    /\ step = "applied" => selOut.out = JoinedSelector(selOut.l, selOut.f)
    /\ step = "done" =>
          /\ down.calls = 1
          /\ down.hasSelector =>
                /\ down.selector # ""
                /\ req.info.ok /\ req.info.IsResourceRequest
                /\ req.info.Verb = "list" /\ req.info.Name = ""
                /\ down.selector =
                      JoinedSelector(DecodeParameters(req.query).opts.LabelSelector,
                                     DecodeParameters(req.query).opts.FieldSelector)

\* list?labelSelector=b==2,a=1&fieldSelector=g!=2 stored "a=1,b=2&g!=2"
C10_Witness ==
    /\ step = "done"
    /\ req.query.labelSelector = <<(<<Requirement("b", "==", "2"), Requirement("a", "=", "1")>>)>>
    /\ req.query.fieldSelector = <<(<<Requirement("g", "!=", "2")>>)>>
    /\ down.hasSelector
    /\ down.selector = "a=1,b=2&g!=2"


(***************************************************************************)
(* Claims about the client component.                                      *)
(***************************************************************************)
\* the stage returned for a resource-addressed request
ComponentDone == step = "done" /\ creq.info.ok /\ creq.info.IsResourceRequest

\* the User-Agent with every upper-case letter replaced by its lower-case one
LowerCasedAgent ==
    [i \in 1..Len(ParamValue(creq.userAgent)) |->
        IF ParamValue(creq.userAgent)[i] = "K" THEN "k" ELSE ParamValue(creq.userAgent)[i]]

RECURSIVE UpToSlash(_)
\* the characters of a string before its first '/'
UpToSlash(str) ==
    IF str = <<>> THEN <<>>
    ELSE IF Head(str) = "/" THEN <<>>
    ELSE <<Head(str)>> \o UpToSlash(Tail(str))

\* the partial-metadata override is present in the context
OverridePresent == creq.convertGVK.ok /\ ~creq.convertGVK.nil

\* partialobjectmetadatas.<version>.<group>
OverrideSuffix ==
    "partialobjectmetadatas." \o creq.convertGVK.Version \o "." \o creq.convertGVK.Group

\* a component with '/<suffix>' appended when the override is present
WithSuffix(component) ==
    IF OverridePresent THEN component \o <<"/", OverrideSuffix>> ELSE component

\* a path none of whose segments is empty, '.' or '..'
RECURSIVE PlainPath(_)
PlainPath(path) ==
    /\ UpToSlash(path) \notin {<<>>, <<".">>, <<".", ".">>}
    /\ Len(UpToSlash(path)) < Len(path) => PlainPath(Drop(path, Len(UpToSlash(path)) + 1))

ComponentOfMode ==
    IF conf.mode = "edge" THEN UpToSlash(LowerCasedAgent) ELSE LowerCasedAgent

PartialMetadataDone == step = "done" /\ creq.info.ok /\ creq.info.IsResourceRequest

\* the clauses of the Accept header in their order of preference
Preferred == ParseAccept(ParamValue(creq.accept))

\* the most preferred clause asks for partial object metadata
AsksPartialMetadata ==
    /\ Len(Preferred) >= 1
    /\ Preferred[1].as \in {"PartialObjectMetadata", "PartialObjectMetadataList"}

\* C12: for a partial-object-metadata request whose declared group contains
\* meta.k8s.io, a declared version containing v1beta1 is normalised to
\* v1beta1 and one containing v1 but not v1beta1 to v1; the stored override
\* carries the normalised version.
C12_VersionNormalisation ==
    (PartialMetadataDone /\ AsksPartialMetadata
       /\ Contains(Preferred[1].g, <<"m", "e", "t", "a", ".", "k", "8", "s", ".", "i", "o">>)) =>
       /\ Contains(Preferred[1].v, <<"v", "1", "b", "e", "t", "a", "1">>) =>
             /\ cdown.convertGVK.ok /\ ~cdown.convertGVK.nil
             /\ cdown.convertGVK.Version = "v1beta1"
       /\ (Contains(Preferred[1].v, <<"v", "1">>)
             /\ ~Contains(Preferred[1].v, <<"v", "1", "b", "e", "t", "a", "1">>)) =>
             /\ cdown.convertGVK.ok /\ ~cdown.convertGVK.nil
             /\ cdown.convertGVK.Version = "v1"


(***************************************************************************)
(* Claims about the object filter.                                         *)
(***************************************************************************)
\* the calls of Filter that were given a Pod
PodCalls == {i \in 1..Len(applied) : applied[i].before.kind = "Pod"}

\* C13: applying Filter to a Pod twice with the same configured host yields
\* the same object as applying it once.
C13_Idempotence ==
    \A i \in PodCalls :
       (i < Len(applied) /\ applied[i + 1].host = applied[i].host) =>
          /\ applied[i + 1].before = applied[i].after
          /\ applied[i + 1].after = applied[i].after

\* a Pod whose container holds the variable twice was changed by the first
\* call and left as it was by the second
C13_Witness ==
    /\ Len(applied) = 2
    /\ applied[1].host = "169.254.2.1"
    /\ applied[2].host = "169.254.2.1"
    /\ applied[1].before.kind = "Pod"
    /\ Len(applied[1].before.containers) = 1
    /\ applied[1].before.containers[1].Env =
          <<[Name |-> "KUBERNETES_SERVICE_HOST", Value |-> "169.254.2.1"],
            [Name |-> "KUBERNETES_SERVICE_HOST", Value |-> "original-value"]>>
    /\ applied[2].after = applied[1].after
    /\ obj = applied[2].after

\* C14: an object that is not a Pod is returned as it is, every field
\* unchanged, and the object the caller holds is left as it was.
C14_Passthrough ==
    \A i \in 1..Len(applied) :
       applied[i].before.kind # "Pod" =>
          /\ applied[i].after = applied[i].before
          /\ i = Len(applied) => obj = applied[i].before

\* a pod template whose container holds the variable with another value went
\* through a filter configured with a host
C14_Witness ==
    /\ Len(applied) >= 1
    /\ applied[1].host = "169.254.2.1"
    /\ applied[1].before.kind = "PodTemplate"
    /\ Len(applied[1].before.containers) >= 1
    /\ applied[1].before.containers[1].Env =
          <<[Name |-> "KUBERNETES_SERVICE_HOST", Value |-> "original-value"]>>
    /\ applied[1].after = applied[1].before

\* every variable named KUBERNETES_SERVICE_HOST of the object holds the host
HoldsHost(o, host) ==
    \A c \in 1..Len(o.containers) :
       \A j \in 1..Len(o.containers[c].Env) :
          o.containers[c].Env[j].Name = "KUBERNETES_SERVICE_HOST" =>
             o.containers[c].Env[j].Value = host

\* C15: Filter leaves a Pod completely unchanged when the configured host is
\* empty (SetMasterServiceHost never called or called with the empty string,
\* also when only SetMasterServicePort was called) and when
\* KUBERNETES_SERVICE_HOST already holds the configured host.
C15_NoOp ==
    \A i \in PodCalls :
       (applied[i].host = "" \/ HoldsHost(applied[i].before, applied[i].host)) =>
          applied[i].after = applied[i].before

\* C16: after Filter on a Pod with configured host H, in every container the
\* variable named KUBERNETES_SERVICE_HOST has value H, every other variable
\* keeps its name, value and position, no variable is added, and the number
\* and order of the containers is unchanged.
C16_Effect ==
    \A i \in PodCalls :
       LET before == applied[i].before.containers
           after  == applied[i].after.containers
       IN  /\ Len(after) = Len(before)
           /\ \A c \in 1..Len(before) :
                 /\ after[c].Name = before[c].Name
                 /\ Len(after[c].Env) = Len(before[c].Env)
                 /\ \A j \in 1..Len(before[c].Env) :
                       /\ after[c].Env[j].Name = before[c].Env[j].Name
                       /\ IF before[c].Env[j].Name = "KUBERNETES_SERVICE_HOST"
                            THEN after[c].Env[j].Value = applied[i].host
                            ELSE after[c].Env[j].Value = before[c].Env[j].Value


(***************************************************************************)
(* Claims about the re-list emission.                                      *)
(***************************************************************************)
\* the call ended, by returning or by panicking
ReListEnded(r) == stream[r].pc \in {"returned", "panicked"}

\* C17: when stream negotiation and encoding succeed ReListWatchReq writes
\* exactly one event of type Error and then flushes the stream, writing
\* nothing after it; when negotiation or encoding fails it returns without
\* flushing and without a further write attempt.
C17_ReListEmission ==
    \A r \in 1..Len(stream) :
       ReListEnded(r) =>
          IF ~stream[r].negotiateErr /\ stream[r].encodeResult = "nil"
            THEN stream[r].out = <<[op |-> "write", type |-> "ERROR", complete |-> TRUE],
                                   [op |-> "flush"]>>
            ELSE /\ \A k \in 1..Len(stream[r].out) : stream[r].out[k].op # "flush"
                 /\ Len(stream[r].out) <= 1


(***************************************************************************)
(* Claims about the pool-scope classification.                             *)
(***************************************************************************)
\* the User-Agent of the request, empty when it has none
RequestAgent == IF creq.userAgent = <<>> THEN <<>> ELSE creq.userAgent[1]

\* the (group, version, resource) of the request is registered as pool-scope
Registered ==
    \E gvr \in conf.poolScopeMetadata :
       /\ gvr.Group = creq.info.APIGroup
       /\ gvr.Version = creq.info.APIVersion
       /\ gvr.Resource = creq.info.Resource

\* C18: the stage always stores the pool-scope flag, and stores true if and
\* only if the User-Agent differs from the reserved multiplexer identity,
\* request info is present, the verb is list or watch and the (group,
\* version, resource) is registered as pool-scope metadata; a request of the
\* multiplexer itself is never classified as pool-scope.
C18_PoolScopeClassification ==
    step = "done" =>
       /\ cdown.calls = 1
       /\ cdown.poolScopeSet
       /\ cdown.poolScope <=>
             /\ RequestAgent # conf.multiplexerUserAgent
             /\ creq.info.ok
             /\ creq.info.Verb \in {"list", "watch"}
             /\ Registered
       /\ RequestAgent = conf.multiplexerUserAgent => ~cdown.poolScope

\* a watch of the registered endpointslices by another client was classified
\* as pool-scope, the multiplexer's agent differing only in the order of its letters
C18_Witness ==
    /\ step = "done"
    /\ creq.info.Verb = "watch"
    /\ creq.info.Resource = "endpointslices"
    /\ creq.userAgent = <<(<<"K", "u">>)>>
    /\ conf.multiplexerUserAgent = <<"u", "K">>
    /\ cdown.poolScopeSet
    /\ cdown.poolScope


(***************************************************************************)
(* SlowStartBatch: what it returns (C19) and the order of the calls (C20). *)
(***************************************************************************)
BatchReturned == batch # NoBatch /\ batch.pc = "returned"

\* the indices fn was called with and returned for
Invoked == {idx \in Indices : batch.w[idx].state \in {"returned", "done"}}

\* the calls of fn that returned nil, and those that returned an error
ReturnedNil == {idx \in Invoked : ~batch.w[idx].err}
ReturnedError == {idx \in Invoked : batch.w[idx].err}

\* the errors held by the returned aggregate
AggregatedErrors == {batch.result.errs[k] : k \in 1..Len(batch.result.errs)}

\* C19: when SlowStartBatch has returned, the integer is the number of calls
\* of fn that returned nil, the error is non-nil exactly when some call of fn
\* returned an error, and it holds the errors of the failing (last) batch,
\* each once.
C19_Result ==
    BatchReturned =>
        /\ batch.result.n = Cardinality(ReturnedNil)
        /\ (batch.result.errs # <<>>) <=> (ReturnedError # {})
        /\ AggregatedErrors = {idx \in ReturnedError : batch.w[idx].batch = batch.batchNo}
        /\ Len(batch.result.errs) = Cardinality(AggregatedErrors)
        /\ (batch.result.errs # <<>>) => AggregatedErrors = ReturnedError

\* a second batch with one call that returned nil and one that failed
C19_Witness ==
    /\ BatchReturned
    /\ batch.batchNo = 2
    /\ batch.result.n = 2
    /\ Len(batch.result.errs) = 1

\* fn was called for idx (it runs or has returned)
Started(idx) == batch.w[idx].state \in {"running", "returned", "done"}

\* the call of fn for idx has returned
Returned(idx) == batch.w[idx].state \in {"returned", "done"}

\* idx belongs to a batch that was started
InBatch(idx) == batch.w[idx].state # "none"

\* no call of fn of a later batch has started while a call of an earlier
\* batch has not returned, and no goroutine of a batch after a failed call exists
BarrierAndEarlyStop ==
    batch # NoBatch =>
        \A i \in Indices, j \in Indices :
            /\ (InBatch(i) /\ Started(j) /\ batch.w[j].batch > batch.w[i].batch)
                   => Returned(i)
            /\ (Returned(i) /\ batch.w[i].err /\ InBatch(j))
                   => batch.w[j].batch <= batch.w[i].batch

\* C20: no call of fn of a later batch starts before every call of the
\* batches before it has returned; once a call of a batch has failed no call
\* of a later batch is ever made, and nothing is started after the return.
C20_BarrierAndEarlyStop ==
    /\ []BarrierAndEarlyStop
    /\ [][BatchReturned => UNCHANGED batch]_vars

\* a call of the second batch failed while calls remained: all calls of the
\* first two batches returned, the rest was never started
C20_Witness ==
    /\ BatchReturned
    /\ batch.batchNo = 2
    /\ batch.index < batch.count
    /\ \E i \in Indices : batch.w[i].batch = 2 /\ batch.w[i].err
    /\ \A i \in Indices : IF i < batch.index THEN batch.w[i].state = "done"
                                              ELSE batch.w[i].state = "none"

(***************************************************************************)
(* The two pools of the admission gate are independent (C21).              *)
(***************************************************************************)
\* a channel that takes another token without blocking
HasRoom(ch) == ~ch.nil /\ ch.len < ch.cap

\* a channel that holds as many tokens as it can
Full(ch) == ~ch.nil /\ ch.len = ch.cap

\* request r passes the gate in this step: it is admitted or rejected
ArrivesNow(r) == pc[r] = "new" /\ pc'[r] # "new"

\* C21: the pool of an arriving request is the pool-scope pool exactly when the
\* flag in its context is true (absent is ordinary); the request is rejected
\* exactly when its own pool has no room, whatever the other pool holds;
\* admission adds one token to its own pool, release takes one from it, and
\* no step of a request changes the other pool.
C21_PoolIndependence ==
    [][\A r \in Requests :
          /\ ArrivesNow(r) =>
                /\ pool'[r] = (flag' = "true")
                /\ IF pool'[r]
                     THEN /\ (pc'[r] = "serving") = HasRoom(multiplexerReqChan)
                          /\ (pc'[r] = "rejected") = ~HasRoom(multiplexerReqChan)
                          /\ reqChan' = reqChan
                          /\ multiplexerReqChan'.len = multiplexerReqChan.len
                                + (IF pc'[r] = "serving" THEN 1 ELSE 0)
                     ELSE /\ (pc'[r] = "serving") = HasRoom(reqChan)
                          /\ (pc'[r] = "rejected") = ~HasRoom(reqChan)
                          /\ multiplexerReqChan' = multiplexerReqChan
                          /\ reqChan'.len = reqChan.len
                                + (IF pc'[r] = "serving" THEN 1 ELSE 0)
          /\ (pc[r] = "serving" /\ pc'[r] # "serving") =>
                /\ reqChan' = reqChan
                /\ multiplexerReqChan' = multiplexerReqChan
          /\ (pc[r] = "deferred" /\ pc'[r] = "done") =>
                IF pool[r]
                  THEN /\ reqChan' = reqChan
                       /\ multiplexerReqChan'.len = multiplexerReqChan.len - 1
                  ELSE /\ multiplexerReqChan' = multiplexerReqChan
                       /\ reqChan'.len = reqChan.len - 1
      ]_vars

\* both pools are full, and a request of each pool is being served: the one
\* that came later was admitted while the other pool was full; a request
\* whose flag was absent took the ordinary pool
C21_Witness ==
    /\ Full(reqChan)
    /\ Full(multiplexerReqChan)
    /\ \E r \in Requests : pc[r] = "serving" /\ pool[r]
    /\ \E r \in Requests : pc[r] = "serving" /\ ~pool[r] /\ r = MaxReq /\ flag = "absent"

(***************************************************************************)
(* WithRequestTimeout: when a deadline is installed (C22).                 *)
(***************************************************************************)
\* the request is resource-addressed and its verb is get, list or watch
TimeoutGuarded ==
    /\ req.info.ok
    /\ req.info.IsResourceRequest
    /\ req.info.Verb \in {"get", "list", "watch"}

\* the timeout the stage computes for a guarded request, in milliseconds
\* (0: none): T+15 s for watch, T-2 s for list when T > 2, the raw timeout
\* minus 2 s for get when it parses and is more than 2 s
ComputedTimeout ==
    IF req.info.Verb = "get"
      THEN IF req.query.timeout # <<>> /\ RequestedDuration.ok /\ RequestedDuration.d > 2000
             THEN RequestedDuration.d - 2000 ELSE 0
      ELSE IF ~HasTimeoutSeconds THEN 0
      ELSE IF req.info.Verb = "watch" THEN (RequestedSeconds + 15) * 1000
      ELSE IF RequestedSeconds > 2 THEN (RequestedSeconds - 2) * 1000
      ELSE 0

\* a list or watch request whose list options cannot be decoded
TimeoutDecodeFails ==
    /\ TimeoutGuarded
    /\ req.info.Verb \in {"list", "watch"}
    /\ DecodeParameters(req.query).err

\* the stage installs a deadline for this request
DeadlineExpected == TimeoutGuarded /\ ~TimeoutDecodeFails /\ ComputedTimeout > 0

\* C22 as stated: a deadline is installed only for a resource-addressed get,
\* list or watch request whose computed timeout is positive, and is then
\* cancelled; every other request is forwarded with no deadline added.
C22_DeadlineGuardAlways ==
    step = "done" =>
       IF DeadlineExpected
         THEN down.calls = 1 /\ down.hasDeadline /\ down.cancelled
         ELSE down.calls = 1 /\ ~down.hasDeadline /\ ~down.cancelled

\* C22 amended: as stated, except that a list or watch request whose list
\* options cannot be decoded is not forwarded at all (it is answered 400 and
\* no deadline is created); every other request without a positive computed
\* timeout is forwarded once with no deadline added.
C22_DeadlineGuard ==
    step = "done" =>
       IF DeadlineExpected
         THEN /\ down.calls = 1
              /\ down.hasDeadline
              /\ down.deadline = ComputedTimeout
              /\ down.cancelled
         ELSE /\ ~down.hasDeadline
              /\ ~down.cancelled
              /\ down.deadline = 0
              /\ down.calls = (IF TimeoutDecodeFails THEN 0 ELSE 1)
              /\ TimeoutDecodeFails => resp.status = 400

\* watch?timeoutSeconds=-15 computed a timeout of zero and was forwarded
\* without a deadline
C22_Witness ==
    /\ TimeoutDone("watch")
    /\ req.query.timeoutSeconds = <<(<<"-", "1", "5">>)>>
    /\ ComputedTimeout = 0
    /\ down.calls = 1
    /\ ~down.hasDeadline
    /\ ~down.cancelled

\* get?timeout=3m was forwarded with a deadline that was cancelled on return
C22_WitnessInstalled ==
    /\ TimeoutDone("get")
    /\ req.query.timeout = <<(<<"3", "m">>)>>
    /\ down.hasDeadline
    /\ down.deadline = 178000
    /\ down.cancelled

(***************************************************************************)
(* WithCacheHeaderCheck: the cache directive (C23).                        *)
(***************************************************************************)
\* the request carries the Edge-Cache header with the value true, in any case
CarriesTrue ==
    /\ creq.edgeCache # <<>>
    /\ Len(creq.edgeCache[1]) = 4
    /\ creq.edgeCache[1][1] \in {"t", "T"}
    /\ creq.edgeCache[1][2] \in {"r", "R"}
    /\ creq.edgeCache[1][3] \in {"u", "U"}
    /\ creq.edgeCache[1][4] \in {"e", "E"}

\* C23: every request that carries Edge-Cache: true (in any case) is handed
\* downstream marked cacheable and without the header, and the flag is set
\* for no other value of the header.
C23_CacheDirective ==
    step = "done" =>
       /\ CarriesTrue => (cdown.calls = 1 /\ cdown.canCache /\ cdown.edgeCache = <<>>)
       /\ cdown.canCache => CarriesTrue

\* what the code does hold to: the same for resource-addressed requests, and
\* nothing at all for the others
CacheDirectiveOfResourceRequests ==
    step = "done" =>
       /\ cdown.calls = 1
       /\ IF creq.info.ok /\ creq.info.IsResourceRequest
            THEN cdown.canCache = CarriesTrue /\ cdown.edgeCache = <<>>
            ELSE ~cdown.canCache /\ cdown.edgeCache = creq.edgeCache

(***************************************************************************)
(* WithRequestContentType: the stored content type (C24).                  *)
(***************************************************************************)
ContentTypeDone == step = "done" /\ creq.info.ok /\ creq.info.IsResourceRequest

\* C24: for a resource-addressed request with a non-empty Accept header the
\* stored content type holds no ';' (it is the bare media type of the first
\* clause, the text before the first ',' and ';'), and nothing is stored
\* when that is empty.
C24_ContentType ==
    (ContentTypeDone /\ creq.accept # <<>> /\ creq.accept[1] # <<>>) =>
       LET header == creq.accept[1]
           ends   == {i \in 1..Len(header) : header[i] \in {",", ";"}}
           bare   == IF ends = {} THEN header
                     ELSE SubSeq(header, 1, (CHOOSE i \in ends : \A j \in ends : i <= j) - 1)
       IN  /\ cdown.calls = 1
           /\ cdown.contentType = (IF bare = <<>> THEN <<>> ELSE <<bare>>)
           /\ cdown.contentType # <<>> =>
                 \A i \in 1..Len(cdown.contentType[1]) : cdown.contentType[1][i] # ";"

\* what the code does hold to: the stored text is the first clause, cut at
\* its first ';' only when one of its parts holds "as="
ContentTypeOfFirstClause ==
    (ContentTypeDone /\ creq.accept # <<>>) =>
       LET header == creq.accept[1]
           commas == {i \in 1..Len(header) : header[i] = ","}
           first  == IF commas = {} THEN header
                     ELSE SubSeq(header, 1, (CHOOSE i \in commas : \A j \in commas : i <= j) - 1)
           semis  == {i \in 1..Len(first) : first[i] = ";"}
           marked == \E i \in 1..(Len(first) - 2) :
                        first[i] = "a" /\ first[i + 1] = "s" /\ first[i + 2] = "="
           stored == IF marked /\ semis # {}
                       THEN SubSeq(first, 1, (CHOOSE i \in semis : \A j \in semis : i <= j) - 1)
                       ELSE first
       IN  cdown.contentType = (IF stored = <<>> THEN <<>> ELSE <<stored>>)

(***************************************************************************)
(* The partial-metadata negotiation fails closed (C25).                    *)
(***************************************************************************)
\* the declared group of the most preferred clause contains meta.k8s.io
GroupRecognised ==
    \E i \in 1..Len(Preferred[1].g) :
       /\ i + 10 <= Len(Preferred[1].g)
       /\ SubSeq(Preferred[1].g, i, i + 10) =
             <<"m", "e", "t", "a", ".", "k", "8", "s", ".", "i", "o">>

\* its declared version matches a known version: v1 and v1beta1 both hold "v1"
VersionRecognised ==
    \E i \in 1..Len(Preferred[1].v) :
       /\ i + 1 <= Len(Preferred[1].v)
       /\ Preferred[1].v[i] = "v"
       /\ Preferred[1].v[i + 1] = "1"

\* C25: for a resource-addressed request whose first clause (in the order of
\* preference) asks for PartialObjectMetadata or PartialObjectMetadataList,
\* no override is stored and the request is forwarded as it came when the
\* declared group does not contain meta.k8s.io or the version matches no
\* known version; otherwise an override of that kind is stored and its group
\* is exactly meta.k8s.io.  A request whose first clause asks for another
\* kind, or that has no clause, gets no override.
C25_FailsClosedOnGroup ==
    step = "done" =>
       /\ cdown.calls = 1
       /\ IF PartialMetadataDone /\ AsksPartialMetadata
            THEN IF GroupRecognised /\ VersionRecognised
                   THEN /\ cdown.convertGVK.ok /\ ~cdown.convertGVK.nil
                        /\ cdown.convertGVK.Group = "meta.k8s.io"
                        /\ cdown.convertGVK.Kind = Preferred[1].as
                   ELSE cdown.convertGVK = creq.convertGVK /\ ~cdown.convertGVK.ok
            ELSE cdown.convertGVK = creq.convertGVK /\ ~cdown.convertGVK.ok

\* the first clause asks for partial metadata of group "meta" and version v1:
\* nothing was stored
C25_Witness ==
    /\ PartialMetadataDone
    /\ AsksPartialMetadata
    /\ Preferred[1].g = <<"m", "e", "t", "a">>
    /\ Preferred[1].v = <<"v", "1">>
    /\ cdown.calls = 1
    /\ ~cdown.convertGVK.ok

\* a declared group that merely contains meta.k8s.io was stored as meta.k8s.io
C25_WitnessStored ==
    /\ PartialMetadataDone
    /\ AsksPartialMetadata
    /\ Len(Preferred[1].g) = 13
    /\ cdown.convertGVK.ok
    /\ cdown.convertGVK.Group = "meta.k8s.io"

\* a request for a Table got no override
C25_WitnessOtherKind ==
    /\ PartialMetadataDone
    /\ Len(Preferred) >= 1
    /\ Preferred[1].as = "Table"
    /\ GroupRecognised /\ VersionRecognised
    /\ ~cdown.convertGVK.ok

(***************************************************************************)
(* WithRequestTrace: the in-flight gauges (C26) and the writer's missing   *)
(* capabilities (C27).                                                     *)
(***************************************************************************)
\* the resource-addressed requests inside the wrapper that count for a
\* family (pool-scope or ordinary) under the label values l
InsideWith(isPool, l) ==
    {r \in TraceRequests :
        /\ trace.pc[r] \in {"serving", "unwinding"}
        /\ trace.info[r].ok
        /\ trace.info[r].IsResourceRequest
        /\ trace.isPool[r] = isPool
        /\ trace.info[r].Verb = l.verb
        /\ trace.info[r].Resource = l.resource}

\* each gauge of either family equals the number of resource-addressed
\* requests of that family and those label values that are inside the wrapper
GaugeBalance ==
    trace # NoTrace =>
       /\ \A l \in DOMAIN trace.inFlight :
             trace.inFlight[l] = Cardinality(InsideWith(FALSE, l))
       /\ \A l \in DOMAIN trace.inFlightMultiplexer :
             trace.inFlightMultiplexer[l] = Cardinality(InsideWith(TRUE, l))
       /\ (\A r \in TraceRequests : trace.pc[r] \in {"new", "done"}) =>
             /\ \A l \in DOMAIN trace.inFlight : trace.inFlight[l] = 0
             /\ \A l \in DOMAIN trace.inFlightMultiplexer : trace.inFlightMultiplexer[l] = 0

\* gauge g with d added under the label values of the request described by info
GaugeMoved(g, info, d) ==
    [l \in DOMAIN g |->
        IF info.ok /\ info.IsResourceRequest
             /\ l.verb = info.Verb /\ l.resource = info.Resource
          THEN g[l] + d ELSE g[l]]

\* C26: under any interleaving each gauge of either family equals the
\* number of resource-addressed requests of that family and those label
\* values that are inside the wrapper (entered, deferred calls not yet run),
\* so every gauge is zero when no request is inside; a request that enters
\* counts for the multiplexer family exactly when the pool-scope flag of its
\* context is true, adds one to the gauge of its label values when it is
\* resource-addressed and touches no gauge otherwise; leaving takes one from
\* the same gauge.
C26_GaugeBalance ==
    /\ []GaugeBalance
    /\ [][\A r \in TraceRequests :
            /\ (trace.pc[r] = "new" /\ trace'.pc[r] = "serving") =>
                  /\ trace'.isPool[r] = (trace'.flag = "true")
                  /\ IF trace'.flag = "true"
                       THEN /\ trace'.inFlight = trace.inFlight
                            /\ trace'.inFlightMultiplexer =
                                  GaugeMoved(trace.inFlightMultiplexer, trace'.info[r], 1)
                       ELSE /\ trace'.inFlightMultiplexer = trace.inFlightMultiplexer
                            /\ trace'.inFlight = GaugeMoved(trace.inFlight, trace'.info[r], 1)
            /\ (trace.pc[r] = "unwinding" /\ trace'.pc[r] = "done") =>
                  IF trace.isPool[r]
                    THEN /\ trace'.inFlight = trace.inFlight
                         /\ trace'.inFlightMultiplexer =
                               GaugeMoved(trace.inFlightMultiplexer, trace.info[r], -1)
                    ELSE /\ trace'.inFlightMultiplexer = trace.inFlightMultiplexer
                         /\ trace'.inFlight = GaugeMoved(trace.inFlight, trace.info[r], -1)
       ]_vars

\* a request left through a panic and its gauge is back at zero while a
\* pool-scope list is still inside and counted once
C26_Witness ==
    /\ trace # NoTrace
    /\ trace.pc[1] = "done"
    /\ trace.outcome[1] = "panicked"
    /\ trace.pc[2] = "unwinding"
    /\ trace.isPool[2]
    /\ trace.info[2].IsResourceRequest
    /\ trace.info[2].Verb = "list"
    /\ \E l \in DOMAIN trace.inFlightMultiplexer :
          l.verb = "list" /\ trace.inFlightMultiplexer[l] = 1
    /\ \A l \in DOMAIN trace.inFlight : trace.inFlight[l] = 0

\* C27: when the response writer supports no flush or no hijack, the wrapper
\* logs each missing capability and no request is aborted for it, also when
\* the downstream handler flushes or hijacks through the wrapped writer.
C27_BestEffortCapabilities ==
    trace # NoTrace =>
       \A r \in TraceRequests :
          /\ trace.pc[r] # "new" =>
                trace.logged[r] = (IF trace.w.flusher THEN 0 ELSE 1)
                                    + (IF trace.w.hijacker THEN 0 ELSE 1)
          /\ trace.outcome[r] \notin {"nilFlusher", "nilHijacker"}

\* what the code does hold to: the missing capabilities are logged and
\* building the wrapper aborts nothing; a request is aborted exactly when
\* the downstream handler uses the missing capability
CapabilitiesLogged ==
    trace # NoTrace =>
       \A r \in TraceRequests :
          /\ trace.pc[r] # "new" =>
                trace.logged[r] = (IF trace.w.flusher THEN 0 ELSE 1)
                                    + (IF trace.w.hijacker THEN 0 ELSE 1)
          /\ trace.outcome[r] = "nilFlusher" => ~trace.w.flusher
          /\ trace.outcome[r] = "nilHijacker" => ~trace.w.hijacker

(***************************************************************************)
(* SlowStartBatch: the calls it makes (C28).                               *)
(***************************************************************************)
RECURSIVE SumSizes(_, _)
\* the sum of the first k batch sizes
SumSizes(sizes, k) == IF k = 0 THEN 0 ELSE sizes[k] + SumSizes(sizes, k - 1)

\* the smaller of two integers
Smaller(a, b) == IF a <= b THEN a ELSE b

\* the indices fn was called with
Called == {idx \in Indices : batch.w[idx].calls > 0}

\* the batch sizes, the bound on the calls and the indices fn is called with
CallAccounting ==
    /\ \A k \in 1..Len(batch.sizes) :
          batch.sizes[k] =
             IF k = 1 THEN Smaller(batch.count, batch.initialBatchSize)
             ELSE Smaller(2 * batch.sizes[k - 1], batch.count - SumSizes(batch.sizes, k - 1))
    /\ Cardinality(Called) <= (IF batch.count > 0 THEN batch.count ELSE 0)
    /\ \A idx \in Called : batch.w[idx].calls = 1 /\ idx < batch.count
    /\ \A idx \in Indices :
          batch.w[idx].state # "none" => \A j \in 0..(idx - 1) : batch.w[j].state # "none"
    /\ BatchReturned => \E k \in 0..MaxCount : Called = 0..(k - 1)

\* when count or initialBatchSize is not positive, fn is never called and
\* the result is (0, nil)
NothingToCall ==
    (batch.count <= 0 \/ batch.initialBatchSize <= 0) =>
       /\ Called = {}
       /\ \A idx \in Indices : batch.w[idx].state = "none"
       /\ BatchReturned => batch.result = [n |-> 0, errs |-> <<>>]

=============================================================================
